---------------------------- MODULE Spec2Model ----------------------------
(***************************************************************************)
(* Verification model of the TeamScheduler assignment core:                *)
(*   Person / Event state, the greedy Schedule.build loop, the worship     *)
(*   leader rotation selector and the EligibilityChecker.                  *)
(* Dates are day numbers; every date the model draws is a Sunday, i.e. a   *)
(* multiple of DaysPerWeek (the callers feed build from get_all_sundays).  *)
(***************************************************************************)
EXTENDS Integers, Sequences, FiniteSets, TLC

VARIABLES
    undo_stack,           \* UIManager.undo_stack: sequence of edit commands
    redo_stack,           \* UIManager.redo_stack
    sheet,                \* the schedule sheet on display: cell texts, open dropdown
    handler,              \* UIScheduleHandler.team: the histories of its persons
    rules,                \* EligibilityChecker.rules: sequence of rule names
    check,                \* arguments of the running is_eligible call
    team,                 \* Schedule.team: sequence of Person input records
    team_none,            \* TRUE when Schedule.team is None
    event_dates,          \* Schedule.event_dates
    preachers,            \* Schedule.preachers
    events,               \* Schedule.events: sequence of [date, roles]
    rotation,             \* worship_leader_name_rotation / selector.rotation
    worship_leader_index, \* worship_leader_index / selector.index
    assigned_dates,       \* Person.assigned_dates, per team position
    last_assigned_dates,  \* Person.last_assigned_dates, per team position
    role_assigned_dates,  \* Person.role_assigned_dates, per team position
    pc,                   \* position of the running operation
    di,                   \* build: index of the event date being processed
    ri,                   \* build: index of the role being processed
    team_copy,            \* build: this date's working pool (team positions)
    event,                \* build: the Event under construction
    ret,                  \* value returned / error raised by the last call
    calls                 \* log of the calls made (inputs and outcomes)

vars == <<undo_stack, redo_stack, sheet, handler, rules, check, team, team_none, event_dates, preachers, events, rotation,
          worship_leader_index, assigned_dates, last_assigned_dates,
          role_assigned_dates, pc, di, ri, team_copy, event, ret, calls>>

-----------------------------------------------------------------------------
(* Bounds of the model                                                     *)

MaxWeek == 5      \* dates range over the Sundays of weeks 0..MaxWeek
MaxDates == 2     \* longest event date list given to one build
MaxTeam == 2      \* largest team given to one build
MaxRotation == 3  \* longest rotation given to a selector
MaxCalls == 3     \* most get_next calls made on one selector
MaxEvents == 3    \* most events open to direct assign_role / unassign_role calls
MaxRules == 3     \* longest rule list given to an EligibilityChecker
MaxCmds == 3      \* most dropdowns opened (edits attempted) in one schedule popup
MaxBuilds == 2    \* most builds made from one handler
MaxHandlerWeek == 1  \* the date ranges given to a handler lie in weeks 0..MaxHandlerWeek
MaxHistory == 3   \* most assign_event calls made on a person before a rule is asked
MaxPreaching == 2  \* most preaching dates of a person a single question is asked about

-----------------------------------------------------------------------------
(* Constants of the program                                                *)

DaysPerWeek == 7

NoDate == -1          \* Python None where a date is expected
Unassigned == "-"     \* Python None in a role slot / where a name is expected
NoPerson == 0         \* Python None where a Person is expected

RoleOrder_display ==
    << "EMCEE", "WORSHIPLEADER", "ACOUSTIC", "KEYS", "DRUMS", "BASS",
       "AUDIO", "LIVE", "LYRICS", "BACKUP", "ELECTRIC", "SUNDAYSCHOOLTEACHER" >>

RoleOrder ==
    << "WORSHIPLEADER", "EMCEE", "ACOUSTIC", "KEYS", "DRUMS", "BASS",
       "AUDIO", "LIVE", "LYRICS", "SUNDAYSCHOOLTEACHER", "BACKUP", "ELECTRIC" >>

Role == { RoleOrder[i] : i \in 1..Len(RoleOrder) }

WORSHIP_LEADER_ROLE_TIME_WINDOW == 4 * DaysPerWeek
SUNDAY_SCHOOL_TEACHER_ROLE_TIME_WINDOW == 4 * DaysPerWeek
EMCEE_ROLE_TIME_WINDOW == 2 * DaysPerWeek
PREACHING_TIME_WINDOW == 1 * DaysPerWeek
CONSECUTIVE_ASSIGNMENTS_LIMIT == 3
default_role_assignment_limit == 2

-----------------------------------------------------------------------------
(* Generic helpers                                                         *)

Range(s) == { s[i] : i \in 1..Len(s) }

RECURSIVE SeqOfLen(_, _)
SeqOfLen(S, n) ==
    IF n = 0 THEN { <<>> }
    ELSE { Append(s, x) : s \in SeqOfLen(S, n - 1), x \in S }

SeqsUpTo(S, n) == UNION { SeqOfLen(S, k) : k \in 0..n }

\* list.remove(x) for an x that is in the list: drops the first element equal
\* to x (for an x that is not in the list Python raises ValueError; no caller
\* below removes such an x)
RemoveFirst(s, x) ==
    LET k == CHOOSE i \in 1..Len(s) : s[i] = x /\ \A j \in 1..(i - 1) : s[j] # x
    IN  SubSeq(s, 1, k - 1) \o SubSeq(s, k + 1, Len(s))

\* a date leaves a history list if it is in it
discard_date(dates, date) ==
    IF date \in Range(dates) THEN RemoveFirst(dates, date) ELSE dates

RECURSIVE SortedSeq(_)
SortedSeq(S) ==
    IF S = {} THEN <<>>
    ELSE LET m == CHOOSE x \in S : \A y \in S : x <= y
         IN  <<m>> \o SortedSeq(S \ {m})

\* the elements of s at the positions in S, in the order of s
PickSeq(s, S) == LET idx == SortedSeq(S) IN [i \in 1..Len(idx) |-> s[idx[i]]]

Reverse(s) == [i \in 1..Len(s) |-> s[Len(s) + 1 - i]]

SeqMax(s) == IF s = <<>> THEN NoDate
             ELSE CHOOSE m \in Range(s) : \A x \in Range(s) : x <= m

-----------------------------------------------------------------------------
(* Person (models/person.py)                                               *)

\* Person.__init__: the history a freshly constructed person starts with
Person_init_assigned_dates == <<>>
Person_init_last_assigned_dates(person) == [r \in person.roles |-> NoDate]
Person_init_role_assigned_dates == [r \in Role |-> <<>>]

assign_event_assigned_dates_twice(dates, date) == Append(Append(dates, date), date)

\* Person.assign_event, first statement: self.assigned_dates.append(date)
assign_event_assigned_dates(dates, date) == Append(dates, date)

\* Person.assign_event, second statement: self.last_assigned_dates[role] = date
assign_event_last_assigned_dates(last, role, date) ==
    [r \in (DOMAIN last) \cup {role} |-> IF r = role THEN date ELSE last[r]]

\* the per-role history kept next to last_assigned_dates (read by
\* ConsecutiveRoleAssignmentLimitRule as person.role_assigned_dates[role])
assign_event_role_assigned_dates(rad, role, date) ==
    [rad EXCEPT ![role] = Append(@, date)]

\* Person.unassign_event: the date leaves assigned_dates
unassign_event_assigned_dates(dates, date) == discard_date(dates, date)

\* Person.unassign_event: the date leaves role_assigned_dates[role]
unassign_event_role_assigned_dates(rad, role, date) ==
    [rad EXCEPT ![role] = discard_date(@, date)]

\* Person.unassign_event: last_assigned_dates[role] becomes the latest date
\* left in role_assigned_dates[role], or None
unassign_event_last_assigned_dates(last, rad_left, role) ==
    [r \in (DOMAIN last) \cup {role} |-> IF r = role THEN SeqMax(rad_left[role]) ELSE last[r]]

\* Person.get_next_preaching_date
get_next_preaching_date(person, reference_date) ==
    LET future_dates == { d \in Range(person.preaching_dates) : d >= reference_date }
    IN  IF future_dates = {} THEN NoDate
        ELSE CHOOSE d \in future_dates : \A e \in future_dates : d <= e

RoleTimeWindowOf(role) ==
    CASE role = "WORSHIPLEADER" -> WORSHIP_LEADER_ROLE_TIME_WINDOW
      [] role = "SUNDAYSCHOOLTEACHER" -> SUNDAY_SCHOOL_TEACHER_ROLE_TIME_WINDOW
      [] role = "EMCEE" -> EMCEE_ROLE_TIME_WINDOW
      [] OTHER -> NoDate

was_not_assigned_too_recently_lax(last, role, date) ==
    IF RoleTimeWindowOf(role) = NoDate THEN TRUE
    ELSE last[role] = NoDate \/ date - last[role] >= RoleTimeWindowOf(role)

\* Person.was_not_assigned_too_recently_to_role
was_not_assigned_too_recently_to_role(last, role, date) ==
    IF RoleTimeWindowOf(role) = NoDate THEN TRUE
    ELSE last[role] = NoDate \/ date - last[role] > RoleTimeWindowOf(role)

\* Person.is_unavailable_due_to_preaching
is_unavailable_due_to_preaching(person, reference_date) ==
    IF person.preaching_dates = <<>> THEN FALSE
    ELSE LET next_date == get_next_preaching_date(person, reference_date)
         IN  next_date # NoDate /\ next_date - reference_date <= PREACHING_TIME_WINDOW

assigned_too_many_times_recently_lax(person, dates, reference_date) ==
    LET past_reference_date == reference_date - CONSECUTIVE_ASSIGNMENTS_LIMIT * DaysPerWeek
        all_dates == Range(dates) \cup Range(person.preaching_dates)
    IN  Cardinality({ d \in all_dates : past_reference_date <= d /\ d <= reference_date })
            > CONSECUTIVE_ASSIGNMENTS_LIMIT

\* Person.assigned_too_many_times_recently
assigned_too_many_times_recently(person, dates, reference_date) ==
    IF dates = <<>> /\ person.preaching_dates = <<>> THEN FALSE
    ELSE IF Len(dates) + Len(person.preaching_dates) < CONSECUTIVE_ASSIGNMENTS_LIMIT THEN FALSE
    ELSE LET past_reference_date == reference_date - CONSECUTIVE_ASSIGNMENTS_LIMIT * DaysPerWeek
             all_dates == Range(dates) \cup Range(person.preaching_dates)
             dates_between_count ==
                 Cardinality({ d \in all_dates : past_reference_date <= d /\ d <= reference_date })
         IN  dates_between_count >= CONSECUTIVE_ASSIGNMENTS_LIMIT

-----------------------------------------------------------------------------
(* Event (models/event.py)                                                 *)

\* Event.__init__: every role slot starts empty
\* (holder is bookkeeping of the model: the team position of the Person
\* object whose name the slot carries)
Event_init(date) ==
    [date |-> date, roles |-> [r \in Role |-> Unassigned],
     holder |-> [r \in Role |-> NoPerson]]

\* the preacher booked on the event's date: the first preacher whose dates
\* contain it (name only), or None
get_assigned_preacher_name(date) ==
    IF \E i \in 1..Len(preachers) : date \in preachers[i].dates
    THEN LET k == CHOOSE i \in 1..Len(preachers) :
                      /\ date \in preachers[i].dates
                      /\ \A j \in 1..(i - 1) : date \notin preachers[j].dates
         IN  preachers[k].name
    ELSE Unassigned

assign_role_allowed_lax(ev, role) == role \in Role

\* Event.assign_role, the two guards: no error is raised iff this holds
assign_role_allowed(ev, role) == role \in Role /\ ev.roles[role] = Unassigned

\* Event.unassign_role, its guards: no error is raised iff the slot holds
\* the given person's name
unassign_role_allowed(ev, role, name) == role \in Role /\ ev.roles[role] = name

\* Event.unassign_role: the slot becomes empty again
unassign_role_slot(ev, role) ==
    [ev EXCEPT !.roles[role] = Unassigned, !.holder[role] = NoPerson]

assign_role_slot_all(ev, role, name) == [ev EXCEPT !.roles = [r \in Role |-> name]]

assign_role_slot_clearing(ev, role, name) ==
    [ev EXCEPT !.roles = [r \in Role |-> IF r = role THEN name ELSE Unassigned]]

\* Event.assign_role: self.roles[role] = person.name
assign_role_slot(ev, role, name) == [ev EXCEPT !.roles[role] = name]

-----------------------------------------------------------------------------
(* Schedule (builders/schedule.py)                                         *)

was_assigned_role_consecutively_never(name, role, date) == FALSE

\* Schedule.was_assigned_role_consecutively_too_many_times
was_assigned_role_consecutively_too_many_times(name, role, date) ==
    LET past == { i \in 1..Len(events) :
                    /\ date - events[i].date <= default_role_assignment_limit * DaysPerWeek
                    /\ events[i].roles[role] = name }
    IN  Cardinality(past) >= default_role_assignment_limit

IsEligiblePerson_soft_only(p, role, date, preacher_name) ==
    LET person == team[p]
    IN  /\ role \in person.roles
        /\ ~assigned_too_many_times_recently(person, assigned_dates[p], date)
        /\ was_not_assigned_too_recently_to_role(last_assigned_dates[p], role, date)
        /\ ~was_assigned_role_consecutively_too_many_times(person.name, role, date)

\* Schedule.get_eligible_person, the body of the loop over the pool: TRUE
\* iff team member p is appended to eligible_persons
IsEligiblePerson(p, role, date, preacher_name) ==
    LET person == team[p]
        isWorshipLeaderRole == role = "WORSHIPLEADER"
    IN  /\ role \in person.roles
        /\ ~(person.name = "Lulu" /\ role = "EMCEE" /\ preacher_name # "Edmund")
        /\ ~(person.name = "Gee" /\ role = "WORSHIPLEADER" /\ preacher_name = "Kris")
        /\ ~person.on_leave
        /\ date \notin person.blockout_dates
        /\ date \notin Range(person.preaching_dates)
        /\ ~assigned_too_many_times_recently(person, assigned_dates[p], date)
        /\ was_not_assigned_too_recently_to_role(last_assigned_dates[p], role, date)
        /\ ~was_assigned_role_consecutively_too_many_times(person.name, role, date)
        /\ (isWorshipLeaderRole =>
               /\ date \notin person.teaching_dates
               /\ ~is_unavailable_due_to_preaching(person, date))

\* eligible_persons: the members of the pool that pass, in pool order
EligiblePersons(pool, role, date, preacher_name) ==
    SelectSeq(pool, LAMBDA p : IsEligiblePerson(p, role, date, preacher_name))

\* first person of eligible_persons (team positions) carrying the name
FirstNamed(persons, name) ==
    IF \E i \in 1..Len(persons) : team[persons[i]].name = name
    THEN persons[CHOOSE i \in 1..Len(persons) :
                     /\ team[persons[i]].name = name
                     /\ \A j \in 1..(i - 1) : team[persons[j]].name # name]
    ELSE NoPerson

\* the circular scan shared by Schedule.get_next_worship_leader and
\* WorshipLeaderSelector.get_next: the number of steps (0-based) from index
\* to the first rotation name carried by an eligible person, or -1
RotationScan(rot, index, names) ==
    LET n == Len(rot)
        hit(k) == rot[((index + k) % n) + 1] \in names
    IN  IF \E k \in 0..(n - 1) : hit(k)
        THEN CHOOSE k \in 0..(n - 1) : hit(k) /\ \A j \in 0..(k - 1) : ~hit(j)
        ELSE -1

get_next_worship_leader_stuck(eligible_persons, rot, index) ==
    LET names == { team[eligible_persons[i]].name : i \in 1..Len(eligible_persons) }
    IN  IF eligible_persons = <<>> \/ rot = <<>>
        THEN [person |-> NoPerson, index |-> index]
        ELSE LET k == RotationScan(rot, index, names)
             IN  IF k = -1 THEN [person |-> NoPerson, index |-> index]
                 ELSE [person |-> FirstNamed(eligible_persons, rot[((index + k) % Len(rot)) + 1]),
                       index |-> index]

\* Schedule.get_next_worship_leader: the person returned and the new cursor
get_next_worship_leader(eligible_persons, rot, index) ==
    LET names == { team[eligible_persons[i]].name : i \in 1..Len(eligible_persons) }
    IN  IF eligible_persons = <<>> \/ rot = <<>>
        THEN [person |-> NoPerson, index |-> index]
        ELSE LET k == RotationScan(rot, index, names)
             IN  IF k = -1 THEN [person |-> NoPerson, index |-> index]
                 ELSE [person |-> FirstNamed(eligible_persons, rot[((index + k) % Len(rot)) + 1]),
                       index |-> (((index + k) % Len(rot)) + 1) % Len(rot)]

get_eligible_person_gives_up(role, pool, date, preacher_name) ==
    LET eligible_persons == EligiblePersons(pool, role, date, preacher_name)
        next == get_next_worship_leader(eligible_persons, rotation, worship_leader_index)
    IN  IF pool = <<>> \/ eligible_persons = <<>> \/ role # "WORSHIPLEADER"
        THEN { [person |-> NoPerson, index |-> worship_leader_index] }
        ELSE IF next.person # NoPerson
        THEN { next }
        ELSE { [person |-> p, index |-> worship_leader_index] : p \in Range(eligible_persons) }

get_eligible_person_rotates_all(role, pool, date, preacher_name) ==
    LET eligible_persons == EligiblePersons(pool, role, date, preacher_name)
        next == get_next_worship_leader(eligible_persons, rotation, worship_leader_index)
    IN  IF pool = <<>> \/ eligible_persons = <<>>
        THEN { [person |-> NoPerson, index |-> worship_leader_index] }
        ELSE IF next.person # NoPerson
        THEN { next }
        ELSE { [person |-> p, index |-> worship_leader_index] : p \in Range(eligible_persons) }

\* Schedule.get_eligible_person: the set of possible outcomes
\* [person, index]; random.choice is a free choice among eligible_persons
get_eligible_person(role, pool, date, preacher_name) ==
    LET eligible_persons == EligiblePersons(pool, role, date, preacher_name)
        next == get_next_worship_leader(eligible_persons, rotation, worship_leader_index)
    IN  IF pool = <<>> \/ eligible_persons = <<>>
        THEN { [person |-> NoPerson, index |-> worship_leader_index] }
        ELSE IF role = "WORSHIPLEADER" /\ next.person # NoPerson
        THEN { next }
        ELSE { [person |-> p, index |-> worship_leader_index] : p \in Range(eligible_persons) }

pool_keep(pool, p) == pool

\* Schedule.build: team_copy.remove(eligible_person)
pool_remove(pool, p) == RemoveFirst(pool, p)

events_append_if_full(evs, ev) ==
    IF \E r \in Role : ev.roles[r] = Unassigned THEN evs ELSE Append(evs, ev)

\* Schedule.build: self.events.append(event)
events_append(evs, ev) == Append(evs, ev)

-----------------------------------------------------------------------------
(* Inputs the model draws from                                             *)

D(k) == DaysPerWeek * k

Dates == { D(k) : k \in 0..MaxWeek }

NoConstraints(name, roles) ==
    [name |-> name, roles |-> roles, blockout_dates |-> {},
     preaching_dates |-> <<>>, teaching_dates |-> {}, on_leave |-> FALSE]

Roster ==
    << NoConstraints("Ann", {"WORSHIPLEADER", "EMCEE"}),
       [NoConstraints("Gee", {"WORSHIPLEADER", "ACOUSTIC"}) EXCEPT !.preaching_dates = <<D(1)>>],
       [NoConstraints("Lulu", {"EMCEE", "SUNDAYSCHOOLTEACHER"}) EXCEPT !.blockout_dates = {D(2)}],
       [NoConstraints("Ann", {"WORSHIPLEADER", "LYRICS"}) EXCEPT !.teaching_dates = {D(0)}],
       [NoConstraints("Bob", {"EMCEE", "LYRICS"}) EXCEPT !.on_leave = TRUE] >>

\* teams: the members of the roster picked by a set of at most MaxTeam
\* positions, in roster order
TeamInputs ==
    { PickSeq(Roster, S) : S \in { T \in SUBSET (1..Len(Roster)) : Cardinality(T) <= MaxTeam } }

\* what get_all_sundays yields: consecutive Sundays in ascending order
SundayRuns == { [i \in 1..n |-> D(i - 1)] : n \in 0..(MaxWeek + 1) }

\* event date lists: the Sunday runs, the same runs latest date first, and
\* every list of at most MaxDates of the first three Sundays in any order,
\* repeats included
DateListInputs ==
    SundayRuns \cup { Reverse(s) : s \in SundayRuns }
        \cup SeqsUpTo({ D(0), D(1), D(2) }, MaxDates)

PreacherInputs ==
    { <<>>,
      << [name |-> "Edmund", dates |-> {D(0), D(2)}],
         [name |-> "Kris", dates |-> {D(0), D(1)}] >> }

RotationInputs == { <<>>, <<"Zed", "Gee", "Ann">> }

NoReturn == [kind |-> "none"]

\* no UIScheduleHandler in the picture
NoHandler == [builds |-> 0]

\* no dropdown is open in the sheet
NoDropdown == [ev |-> 0, role |-> Unassigned, currently_assigned_name |-> Unassigned,
               values |-> {}]

\* no sheet in the picture
NoSheet == [cells |-> <<>>, dropdown |-> NoDropdown, opened |-> 0,
            command_class |-> Unassigned]

NoCheck == [person |-> NoPerson, role |-> Unassigned, event_date |-> NoDate,
            preacher |-> Unassigned]

-----------------------------------------------------------------------------
(* Schedule.build as a state machine                                       *)

\* Schedule.__init__ over freshly constructed persons
Init ==
    /\ undo_stack = <<>>
    /\ redo_stack = <<>>
    /\ sheet = NoSheet
    /\ handler = NoHandler
    /\ rules = <<>>
    /\ check = NoCheck
    /\ team_none \in BOOLEAN
    /\ team \in (IF team_none THEN { <<>> } ELSE TeamInputs)
    /\ event_dates \in DateListInputs
    /\ preachers \in PreacherInputs
    /\ rotation \in RotationInputs
    /\ worship_leader_index = 0
    /\ events = <<>>
    /\ assigned_dates = [p \in 1..Len(team) |-> Person_init_assigned_dates]
    /\ last_assigned_dates = [p \in 1..Len(team) |-> Person_init_last_assigned_dates(team[p])]
    /\ role_assigned_dates = [p \in 1..Len(team) |-> Person_init_role_assigned_dates]
    /\ pc = "build"
    /\ di = 1
    /\ ri = 0
    /\ team_copy = <<>>
    /\ event = Event_init(NoDate)
    /\ ret = NoReturn
    /\ calls = <<>>

\* top of the loop over event_dates: copy the team, create the Event
BuildNextDate ==
    /\ pc = "build"
    /\ di <= Len(event_dates)
    /\ IF team_none
       THEN /\ ret' = [kind |-> "list"]
            /\ pc' = "done"
            /\ UNCHANGED <<team_copy, event, ri>>
       ELSE /\ team_copy' = [i \in 1..Len(team) |-> i]
            /\ event' = Event_init(event_dates[di])
            /\ ri' = 1
            /\ pc' = "roles"
            /\ UNCHANGED ret
    /\ UNCHANGED <<undo_stack, redo_stack, sheet, handler, rules, check, team, team_none, event_dates, preachers, events, rotation,
                   worship_leader_index, assigned_dates, last_assigned_dates,
                   role_assigned_dates, di, calls>>

BuildRole_retries ==
    /\ pc = "roles"
    /\ ri <= Len(RoleOrder)
    /\ LET role == RoleOrder[ri]
           preacher_name == get_assigned_preacher_name(event.date)
       IN  \E out \in get_eligible_person(role, team_copy, event.date, preacher_name) :
             /\ worship_leader_index' = out.index
             /\ IF out.person = NoPerson
                THEN /\ ri' = ri
                     /\ UNCHANGED <<event, team_copy, assigned_dates, last_assigned_dates,
                                    role_assigned_dates, ret, pc>>
                ELSE IF ~assign_role_allowed(event, role)
                THEN /\ ret' = [kind |-> "error"]
                     /\ pc' = "done"
                     /\ UNCHANGED <<event, team_copy, assigned_dates, last_assigned_dates,
                                    role_assigned_dates, ri>>
                ELSE /\ event' = [assign_role_slot(event, role, team[out.person].name)
                                     EXCEPT !.holder[role] = out.person]
                     /\ assigned_dates' =
                          [assigned_dates EXCEPT ![out.person] =
                              assign_event_assigned_dates(@, event.date)]
                     /\ last_assigned_dates' =
                          [last_assigned_dates EXCEPT ![out.person] =
                              assign_event_last_assigned_dates(@, role, event.date)]
                     /\ role_assigned_dates' =
                          [role_assigned_dates EXCEPT ![out.person] =
                              assign_event_role_assigned_dates(@, role, event.date)]
                     /\ team_copy' = pool_remove(team_copy, out.person)
                     /\ ri' = ri + 1
                     /\ UNCHANGED <<ret, pc>>
    /\ UNCHANGED <<undo_stack, redo_stack, sheet, handler, rules, check, team, team_none, event_dates, preachers, events, rotation, di, calls>>

\* one iteration of the loop over Role: get_eligible_person, then
\* event.assign_role (which calls person.assign_event) and team_copy.remove
BuildRole ==
    /\ pc = "roles"
    /\ ri <= Len(RoleOrder)
    /\ LET role == RoleOrder[ri]
           preacher_name == get_assigned_preacher_name(event.date)
       IN  \E out \in get_eligible_person(role, team_copy, event.date, preacher_name) :
             /\ worship_leader_index' = out.index
             /\ IF out.person = NoPerson
                THEN /\ ri' = ri + 1
                     /\ UNCHANGED <<event, team_copy, assigned_dates, last_assigned_dates,
                                    role_assigned_dates, ret, pc>>
                ELSE IF ~assign_role_allowed(event, role)
                THEN /\ ret' = [kind |-> "error"]
                     /\ pc' = "done"
                     /\ UNCHANGED <<event, team_copy, assigned_dates, last_assigned_dates,
                                    role_assigned_dates, ri>>
                ELSE /\ event' = [assign_role_slot(event, role, team[out.person].name)
                                     EXCEPT !.holder[role] = out.person]
                     /\ assigned_dates' =
                          [assigned_dates EXCEPT ![out.person] =
                              assign_event_assigned_dates(@, event.date)]
                     /\ last_assigned_dates' =
                          [last_assigned_dates EXCEPT ![out.person] =
                              assign_event_last_assigned_dates(@, role, event.date)]
                     /\ role_assigned_dates' =
                          [role_assigned_dates EXCEPT ![out.person] =
                              assign_event_role_assigned_dates(@, role, event.date)]
                     /\ team_copy' = pool_remove(team_copy, out.person)
                     /\ ri' = ri + 1
                     /\ UNCHANGED <<ret, pc>>
    /\ UNCHANGED <<undo_stack, redo_stack, sheet, handler, rules, check, team, team_none, event_dates, preachers, events, rotation, di, calls>>

\* after the last role: self.events.append(event), next date
BuildAppendEvent ==
    /\ pc = "roles"
    /\ ri > Len(RoleOrder)
    /\ events' = events_append(events, event)
    /\ di' = di + 1
    /\ pc' = "build"
    /\ UNCHANGED <<undo_stack, redo_stack, sheet, handler, rules, check, team, team_none, event_dates, preachers, rotation,
                   worship_leader_index, assigned_dates, last_assigned_dates,
                   role_assigned_dates, ri, team_copy, event, ret, calls>>

\* return (self.events, self.team)
BuildReturn ==
    /\ pc = "build"
    /\ di > Len(event_dates)
    /\ ret' = [kind |-> "pair"]
    /\ pc' = "done"
    /\ UNCHANGED <<undo_stack, redo_stack, sheet, handler, rules, check, team, team_none, event_dates, preachers, events, rotation,
                   worship_leader_index, assigned_dates, last_assigned_dates,
                   role_assigned_dates, di, ri, team_copy, event, calls>>

Next == BuildNextDate \/ BuildRole \/ BuildAppendEvent \/ BuildReturn

Spec == Init /\ [][Next]_vars

\* Schedule.build runs in one thread that is not suspended for good: while
\* there is a next step, it is taken
SpecLive == Init /\ [][Next]_vars /\ WF_vars(Next)

-----------------------------------------------------------------------------
(* Properties of Schedule.build                                            *)

UniqueNames == \A p, q \in 1..Len(team) : team[p].name = team[q].name => p = q

\* every Event of the build: the appended ones and the one under construction
BuiltEvents == IF pc = "roles" THEN Append(events, event) ELSE events

CooldownRoles == { "WORSHIPLEADER", "SUNDAYSCHOOLTEACHER", "EMCEE" }

\* number of dates of person p (assigned or preaching) in [date - L weeks, date]
FatigueCount(p, date) ==
    Cardinality({ d \in Range(assigned_dates[p]) \cup Range(team[p].preaching_dates) :
                    date - CONSECUTIVE_ASSIGNMENTS_LIMIT * DaysPerWeek <= d /\ d <= date })

Ascending(s) == \A i, j \in 1..Len(s) : i < j => s[i] <= s[j]

\* C1: with unique names in the team, in every event of a build each
\* person's name fills at most one role slot.
C1_NoDoubleBooking ==
    UniqueNames =>
        \A i \in 1..Len(BuiltEvents) : \A r1, r2 \in Role :
            (r1 # r2 /\ BuiltEvents[i].roles[r1] # Unassigned)
                => BuiltEvents[i].roles[r1] # BuiltEvents[i].roles[r2]

\* C1 reached: a finished event of a unique-name team with two filled slots,
\* the holder of the first being capable of the second role too
C1_Witness ==
    /\ pc = "done" /\ ret.kind = "pair" /\ UniqueNames
    /\ \E i \in 1..Len(events) : \E r1, r2 \in Role :
          /\ r1 # r2
          /\ events[i].roles[r1] # Unassigned
          /\ events[i].roles[r2] # Unassigned
          /\ \E p \in 1..Len(team) :
                /\ events[i].holder[r1] = p
                /\ r2 \in team[p].roles

\* C2: two events of one build in which the same person holds the same
\* cooldown-bearing role R lie strictly more than W(R) apart.
C2_CooldownStrict ==
    \A i, j \in 1..Len(BuiltEvents) : \A r \in CooldownRoles :
        (/\ BuiltEvents[i].holder[r] # NoPerson
         /\ BuiltEvents[i].holder[r] = BuiltEvents[j].holder[r]
         /\ BuiltEvents[i].date < BuiltEvents[j].date)
            => BuiltEvents[j].date - BuiltEvents[i].date > RoleTimeWindowOf(r)

\* C2 reached: one person holds a cooldown role on two built dates
C2_Witness ==
    /\ pc = "done" /\ ret.kind = "pair"
    /\ \E i, j \in 1..Len(events) :
          /\ events[i].holder["WORSHIPLEADER"] # NoPerson
          /\ events[i].holder["WORSHIPLEADER"] = events[j].holder["WORSHIPLEADER"]
          /\ events[j].date - events[i].date = WORSHIP_LEADER_ROLE_TIME_WINDOW + DaysPerWeek
    /\ \E i, j \in 1..Len(events) :
          /\ events[i].holder["EMCEE"] # NoPerson
          /\ events[i].holder["EMCEE"] = events[j].holder["EMCEE"]
          /\ events[j].date - events[i].date = EMCEE_ROLE_TIME_WINDOW + DaysPerWeek

\* C3 as stated: for every list of event dates, in whatever order, after
\* the build every date D a person was assigned on has fewer than L + 1
\* assigned-or-preaching dates in [D - L weeks, D].
C3_FatigueCapAnyOrder ==
    pc = "done" =>
        \A p \in 1..Len(team) : \A d \in Range(assigned_dates[p]) :
            FatigueCount(p, d) < CONSECUTIVE_ASSIGNMENTS_LIMIT + 1

\* C3 amended: when the event dates are given in ascending order, every date
\* D a person was assigned on has fewer than L + 1 assigned-or-preaching
\* dates in [D - L weeks, D], during the build and after it.
C3_FatigueCapAscending ==
    Ascending(event_dates) =>
        \A p \in 1..Len(team) : \A d \in Range(assigned_dates[p]) :
            FatigueCount(p, d) < CONSECUTIVE_ASSIGNMENTS_LIMIT + 1

\* C3 reached: an ascending build in which a person is at the fatigue limit
C3_Witness ==
    /\ pc = "done" /\ ret.kind = "pair" /\ Ascending(event_dates)
    /\ \E p \in 1..Len(team) : \E d \in Range(assigned_dates[p]) :
          /\ FatigueCount(p, d) = CONSECUTIVE_ASSIGNMENTS_LIMIT
          /\ \E e \in Range(event_dates) :
                /\ e > d
                /\ e - d <= DaysPerWeek
                /\ e \notin Range(assigned_dates[p])
                /\ e \notin Range(team[p].preaching_dates)
                /\ e \notin team[p].blockout_dates

\* C7: build on an empty team (None or []) returns the pair ([], team)
\* and creates no event.
C7_EmptyTeamReturnsEmptyPair ==
    (team_none \/ team = <<>>) =>
        /\ pc # "roles"
        /\ events = <<>>
        /\ pc = "done" => ret.kind = "pair"

\* C8: build with a non-empty team returns the pair (events, team) with
\* exactly one event per event date, in the order given, whatever roles
\* stayed unassigned.
C8_OneEventPerDate ==
    (/\ pc = "done" /\ ~team_none /\ team # <<>>) =>
        /\ ret.kind = "pair"
        /\ Len(events) = Len(event_dates)
        /\ \A i \in 1..Len(events) : events[i].date = event_dates[i]

\* C8 reached: a returned build of two or more dates whose first event has a
\* role left unassigned (though a team member can do it) before a filled one
C8_Witness ==
    /\ pc = "done" /\ ret.kind = "pair" /\ team # <<>>
    /\ Len(events) >= 2
    /\ \E ra, rb \in 1..Len(RoleOrder) :
          /\ ra < rb
          /\ events[1].roles[RoleOrder[ra]] = Unassigned
          /\ \E p \in 1..Len(team) : RoleOrder[ra] \in team[p].roles
          /\ events[1].roles[RoleOrder[rb]] # Unassigned
    /\ \E r \in Role : events[2].roles[r] # Unassigned

-----------------------------------------------------------------------------
(* WorshipLeaderSelector (helpers/worship_leader_selector.py)              *)

get_next_stuck(eligible_persons, rot, index) ==
    get_next_worship_leader_stuck(eligible_persons, rot, index)

get_next_eager(eligible_persons, rot, index) ==
    LET names == { team[eligible_persons[i]].name : i \in 1..Len(eligible_persons) }
    IN  IF eligible_persons = <<>> \/ rot = <<>>
        THEN [person |-> NoPerson, index |-> index]
        ELSE LET k == RotationScan(rot, index, names)
             IN  IF k = -1 THEN [person |-> NoPerson, index |-> (index + 1) % Len(rot)]
                 ELSE [person |-> FirstNamed(eligible_persons, rot[((index + k) % Len(rot)) + 1]),
                       index |-> (((index + k) % Len(rot)) + 1) % Len(rot)]

get_next_from_start(eligible_persons, rot, index) ==
    LET names == { team[eligible_persons[i]].name : i \in 1..Len(eligible_persons) }
    IN  IF eligible_persons = <<>> \/ rot = <<>>
        THEN [person |-> NoPerson, index |-> index]
        ELSE LET k == RotationScan(rot, 0, names)
             IN  IF k = -1 THEN [person |-> NoPerson, index |-> index]
                 ELSE [person |-> FirstNamed(eligible_persons, rot[(k % Len(rot)) + 1]),
                       index |-> ((k % Len(rot)) + 1) % Len(rot)]

get_next_no_wrap(eligible_persons, rot, index) ==
    LET names == { team[eligible_persons[i]].name : i \in 1..Len(eligible_persons) }
    IN  IF eligible_persons = <<>> \/ rot = <<>>
        THEN [person |-> NoPerson, index |-> index]
        ELSE LET k == RotationScan(rot, index, names)
             IN  IF k = -1 THEN [person |-> NoPerson, index |-> index]
                 ELSE [person |-> FirstNamed(eligible_persons, rot[((index + k) % Len(rot)) + 1]),
                       index |-> ((index + k) % Len(rot)) + 1]

\* WorshipLeaderSelector.get_next: the person returned and the new index
get_next(eligible_persons, rot, index) ==
    LET names == { team[eligible_persons[i]].name : i \in 1..Len(eligible_persons) }
    IN  IF eligible_persons = <<>> \/ rot = <<>>
        THEN [person |-> NoPerson, index |-> index]
        ELSE LET k == RotationScan(rot, index, names)
             IN  IF k = -1 THEN [person |-> NoPerson, index |-> index]
                 ELSE [person |-> FirstNamed(eligible_persons, rot[((index + k) % Len(rot)) + 1]),
                       index |-> (((index + k) % Len(rot)) + 1) % Len(rot)]

SelTeam == PickSeq(Roster, {1, 2, 3})

\* rotation names are drawn from the names of the team
SelNames == { SelTeam[i].name : i \in 1..Len(SelTeam) }

\* WorshipLeaderSelector.__init__(rotation, index), index within the rotation
SelInit ==
    /\ undo_stack = <<>>
    /\ redo_stack = <<>>
    /\ sheet = NoSheet
    /\ handler = NoHandler
    /\ rules = <<>>
    /\ check = NoCheck
    /\ team = SelTeam
    /\ team_none = FALSE
    /\ rotation \in SeqsUpTo(SelNames, MaxRotation)
    /\ worship_leader_index \in (IF rotation = <<>> THEN {0} ELSE 0..(Len(rotation) - 1))
    /\ event_dates = <<>>
    /\ preachers = <<>>
    /\ events = <<>>
    /\ assigned_dates = [p \in 1..Len(team) |-> Person_init_assigned_dates]
    /\ last_assigned_dates = [p \in 1..Len(team) |-> Person_init_last_assigned_dates(team[p])]
    /\ role_assigned_dates = [p \in 1..Len(team) |-> Person_init_role_assigned_dates]
    /\ pc = "selector"
    /\ di = 0
    /\ ri = 0
    /\ team_copy = <<>>
    /\ event = Event_init(NoDate)
    /\ ret = NoReturn
    /\ calls = <<>>

\* one call selector.get_next(eligible_persons), eligible_persons any
\* sub-list of the team
SelGetNext ==
    /\ pc = "selector"
    /\ Len(calls) < MaxCalls
    /\ \E S \in SUBSET (1..Len(team)) :
          LET eligible_persons == SortedSeq(S)
              out == get_next(eligible_persons, rotation, worship_leader_index)
          IN  /\ worship_leader_index' = out.index
              /\ ret' = [kind |-> "person", person |-> out.person]
              /\ calls' = Append(calls, [eligible |-> S,
                                        person |-> out.person,
                                        before |-> worship_leader_index,
                                        after |-> out.index])
    /\ UNCHANGED <<undo_stack, redo_stack, sheet, handler, rules, check, team, team_none, event_dates, preachers, events, rotation,
                   assigned_dates, last_assigned_dates, role_assigned_dates,
                   pc, di, ri, team_copy, event>>

SelNext == SelGetNext

SpecSel == SelInit /\ [][SelNext]_vars

NamesOf(S) == { team[p].name : p \in S }

NameOfPerson(p) == IF p = NoPerson THEN Unassigned ELSE team[p].name

\* calls i..j of the log were all made with one eligible set that carries
\* every rotation name
StaticFullRun(i, j) ==
    /\ rotation # <<>>
    /\ i <= j
    /\ \A k \in i..j : calls[k].eligible = calls[i].eligible
    /\ Range(rotation) \subseteq NamesOf(calls[i].eligible)

Occurrences(s, x) == Cardinality({ q \in 1..Len(s) : s[q] = x })

ReturnedIn(i, j, name) == Cardinality({ k \in i..j : NameOfPerson(calls[k].person) = name })

\* C4 as stated: over repeated calls with one eligible set carrying every
\* rotation name, in every len(rotation) consecutive calls each rotation
\* name is returned exactly once.
C4_EachNameOncePerCycle ==
    \A i \in 1..Len(calls) :
        LET j == i + Len(rotation) - 1
        IN  (j <= Len(calls) /\ StaticFullRun(i, j))
                => \A name \in Range(rotation) : ReturnedIn(i, j, name) = 1

\* C4 amended: such calls return the rotation names in rotation order
\* starting at the cursor and wrapping around, and in every len(rotation)
\* consecutive calls each name is returned as many times as it occurs in
\* the rotation (once when the rotation names are distinct).
C4_RotationOrder ==
    \A i, j \in 1..Len(calls) :
        StaticFullRun(i, j) =>
            /\ NameOfPerson(calls[j].person)
                  = rotation[((calls[i].before + (j - i)) % Len(rotation)) + 1]
            /\ (j = i + Len(rotation) - 1) =>
                  \A name \in Range(rotation) :
                      ReturnedIn(i, j, name) = Occurrences(rotation, name)

\* C4 reached: three calls on a rotation of three distinct names, starting
\* at cursor 1, return rotation[2], rotation[3], rotation[1]
C4_Witness ==
    /\ Len(rotation) = 3
    /\ \A a, b \in 1..3 : rotation[a] = rotation[b] => a = b
    /\ Len(calls) = 3
    /\ calls[1].before = 1
    /\ StaticFullRun(1, 3)
    /\ NameOfPerson(calls[1].person) = rotation[2]
    /\ NameOfPerson(calls[2].person) = rotation[3]
    /\ NameOfPerson(calls[3].person) = rotation[1]

NoMatch(k) ==
    \/ rotation = <<>>
    \/ calls[k].eligible = {}
    \/ Range(rotation) \cap NamesOf(calls[k].eligible) = {}

\* C5: a get_next call with an empty rotation, an empty eligible list or
\* no rotation name among the eligible persons returns None and leaves the
\* cursor where it was, so the next call starts from the same position.
C5_FailedCallKeepsCursor ==
    \A k \in 1..Len(calls) :
        NoMatch(k) =>
            /\ calls[k].person = NoPerson
            /\ calls[k].after = calls[k].before
            /\ (k < Len(calls)) => calls[k + 1].before = calls[k].before
            /\ (k = Len(calls)) => worship_leader_index = calls[k].before

\* C5 reached: a call that finds no match after the cursor has moved
C5_Witness ==
    /\ Len(calls) >= 3
    /\ calls[1].person # NoPerson
    /\ calls[2].before > 0
    /\ rotation # <<>> /\ calls[2].eligible # {} /\ NoMatch(2)
    /\ calls[3].person # NoPerson
    /\ calls[3].before = calls[2].before
    /\ NameOfPerson(calls[3].person) = rotation[calls[2].before + 1]

-----------------------------------------------------------------------------
(* Event.assign_role / Event.unassign_role called directly on events       *)

EditTeam == PickSeq(Roster, {1, 2})

\* the Person objects a caller can pass to assign_role / unassign_role: the
\* members of the events' team and one Person constructed outside it
EditPersons == EditTeam \o << Roster[3] >>

EditRoles == { "WORSHIPLEADER" }

\* the events: one per Sunday of a run, or the same Sundays latest first
EditDateLists ==
    { s \in SundayRuns \cup { Reverse(t) : t \in SundayRuns } : Len(s) \in 1..MaxEvents }

\* last_assigned_dates[role], None when the person has no entry for role
LastOf(last, role) == IF role \in DOMAIN last THEN last[role] ELSE NoDate

\* what a Person's history says about one role
HistoryOf(p, role) ==
    [assigned_dates |-> assigned_dates[p],
     last_assigned_date |-> LastOf(last_assigned_dates[p], role),
     role_assigned_dates |-> role_assigned_dates[p][role]]

\* Event(date, team = EditTeam) for each date, over freshly constructed
\* persons
EditInit ==
    /\ undo_stack = <<>>
    /\ redo_stack = <<>>
    /\ sheet = NoSheet
    /\ handler = NoHandler
    /\ rules = <<>>
    /\ check = NoCheck
    /\ team = EditPersons
    /\ team_none = FALSE
    /\ event_dates \in EditDateLists
    /\ events = [i \in 1..Len(event_dates) |-> Event_init(event_dates[i])]
    /\ preachers = <<>>
    /\ rotation = <<>>
    /\ worship_leader_index = 0
    /\ assigned_dates = [p \in 1..Len(team) |-> Person_init_assigned_dates]
    /\ last_assigned_dates = [p \in 1..Len(team) |-> Person_init_last_assigned_dates(team[p])]
    /\ role_assigned_dates = [p \in 1..Len(team) |-> Person_init_role_assigned_dates]
    /\ pc = "edit"
    /\ di = 0
    /\ ri = 0
    /\ team_copy = <<>>
    /\ event = Event_init(NoDate)
    /\ ret = NoReturn
    /\ calls = <<>>

NoHistory == [assigned_dates |-> <<>>, last_assigned_date |-> NoDate,
              role_assigned_dates |-> <<>>]

\* for an unassign_role call that directly follows the successful
\* assign_role of the same event, role and person: the person's history
\* before that assign_role
Undoes(e, role, p) ==
    IF /\ calls # <<>>
       /\ calls[1].op = "assign_role" /\ calls[1].ok
       /\ calls[1].ev = e /\ calls[1].role = role /\ calls[1].person = p
    THEN [follows |-> TRUE, before |-> calls[1].before]
    ELSE [follows |-> FALSE, before |-> NoHistory]

\* events[e].assign_role(role, team[p])
EditAssignRole ==
    /\ pc = "edit"
    /\ \E e \in 1..Len(events), role \in EditRoles, p \in 1..Len(team) :
          LET rec == [op |-> "assign_role", ev |-> e, role |-> role, person |-> p,
                      ok |-> assign_role_allowed(events[e], role),
                      slot |-> events[e].roles[role], before |-> HistoryOf(p, role),
                      undoes |-> [follows |-> FALSE, before |-> NoHistory]]
          IN  IF ~assign_role_allowed(events[e], role)
              THEN /\ ret' = [kind |-> "error"]
                   /\ calls' = <<rec>>
                   /\ UNCHANGED <<events, assigned_dates, last_assigned_dates,
                                  role_assigned_dates>>
              ELSE /\ events' = [events EXCEPT ![e] =
                                    [assign_role_slot(@, role, team[p].name)
                                        EXCEPT !.holder[role] = p]]
                   /\ assigned_dates' =
                        [assigned_dates EXCEPT ![p] =
                            assign_event_assigned_dates(@, events[e].date)]
                   /\ last_assigned_dates' =
                        [last_assigned_dates EXCEPT ![p] =
                            assign_event_last_assigned_dates(@, role, events[e].date)]
                   /\ role_assigned_dates' =
                        [role_assigned_dates EXCEPT ![p] =
                            assign_event_role_assigned_dates(@, role, events[e].date)]
                   /\ ret' = [kind |-> "ok"]
                   /\ calls' = <<rec>>
    /\ UNCHANGED <<undo_stack, redo_stack, sheet, handler, rules, check, team, team_none, event_dates, preachers, rotation,
                   worship_leader_index, pc, di, ri, team_copy, event>>

\* events[e].unassign_role(role, team[p])
EditUnassignRole ==
    /\ pc = "edit"
    /\ \E e \in 1..Len(events), role \in EditRoles, p \in 1..Len(team) :
          LET rec == [op |-> "unassign_role", ev |-> e, role |-> role, person |-> p,
                      ok |-> unassign_role_allowed(events[e], role, team[p].name),
                      slot |-> events[e].roles[role], before |-> HistoryOf(p, role),
                      undoes |-> Undoes(e, role, p)]
              rad_left == unassign_event_role_assigned_dates(
                              role_assigned_dates[p], role, events[e].date)
          IN  IF ~unassign_role_allowed(events[e], role, team[p].name)
              THEN /\ ret' = [kind |-> "error"]
                   /\ calls' = <<rec>>
                   /\ UNCHANGED <<events, assigned_dates, last_assigned_dates,
                                  role_assigned_dates>>
              ELSE /\ events' = [events EXCEPT ![e] = unassign_role_slot(@, role)]
                   /\ assigned_dates' =
                        [assigned_dates EXCEPT ![p] =
                            unassign_event_assigned_dates(@, events[e].date)]
                   /\ role_assigned_dates' = [role_assigned_dates EXCEPT ![p] = rad_left]
                   /\ last_assigned_dates' =
                        [last_assigned_dates EXCEPT ![p] =
                            unassign_event_last_assigned_dates(@, rad_left, role)]
                   /\ ret' = [kind |-> "ok"]
                   /\ calls' = <<rec>>
    /\ UNCHANGED <<undo_stack, redo_stack, sheet, handler, rules, check, team, team_none, event_dates, preachers, rotation,
                   worship_leader_index, pc, di, ri, team_copy, event>>

EditNext == EditAssignRole \/ EditUnassignRole

SpecEdit == EditInit /\ [][EditNext]_vars

\* C6: Person.assign_event(d, r) directly followed by unassign_event(d, r)
\* (through Event.assign_role / unassign_role) leaves assigned_dates,
\* last_assigned_dates[r] and role_assigned_dates[r] as they were before.
C6_AssignUnassignRestores ==
    (/\ calls # <<>>
     /\ calls[1].op = "unassign_role" /\ calls[1].ok
     /\ calls[1].undoes.follows)
        => HistoryOf(calls[1].person, calls[1].role) = calls[1].undoes.before

\* C10: assign_role on a filled slot raises and changes nothing: not the
\* slot, not any other slot, not any person's history.
C10_FilledSlotRejected ==
    [][ (calls'[1].op = "assign_role" /\ calls'[1].slot # Unassigned)
            => /\ ret'.kind = "error"
               /\ UNCHANGED <<events, assigned_dates, last_assigned_dates,
                              role_assigned_dates>> ]_vars

\* C10 reached: assign_role was refused on a slot holding another name
C10_Witness ==
    /\ calls # <<>>
    /\ calls[1].op = "assign_role"
    /\ calls[1].slot # Unassigned
    /\ calls[1].slot # team[calls[1].person].name
    /\ ret.kind = "error"
    /\ events[calls[1].ev].roles[calls[1].role] = calls[1].slot
    /\ assigned_dates[calls[1].person] = <<>>

\* C11: after any sequence of assign / unassign calls, in any date order,
\* last_assigned_dates[role] is the latest date of role_assigned_dates[role]
\* and is unset when that list is empty.
C11_LastIsMax ==
    pc = "edit" =>
        \A p \in 1..Len(team) : \A role \in EditRoles :
            LastOf(last_assigned_dates[p], role) = SeqMax(role_assigned_dates[p][role])

\* Event.team of the edited events, as names
EventTeamNames == { EditTeam[i].name : i \in 1..Len(EditTeam) }

\* C12: every filled role slot of an event holds the name of a member of
\* that event's team, after any sequence of assign_role / unassign_role calls.
C12_SlotsHoldTeamNames ==
    pc = "edit" =>
        \A e \in 1..Len(events) : \A role \in Role :
            events[e].roles[role] # Unassigned
                => events[e].roles[role] \in EventTeamNames

-----------------------------------------------------------------------------
(* Eligibility rules (eligibility/rules.py)                                *)
(* A rule reads the person at team position p together with that person's  *)
(* history; preacher is the preacher's name, Unassigned for None.          *)

RoleCapabilityRule(p, role, event_date, preacher) == role \in team[p].roles

OnLeaveRule(p, role, event_date, preacher) == ~team[p].on_leave

BlockoutDateRule(p, role, event_date, preacher) ==
    event_date \notin team[p].blockout_dates

PreachingDateRule(p, role, event_date, preacher) ==
    event_date \notin Range(team[p].preaching_dates)

\* RoleTimeWindowRule reads person.last_assigned_dates[role]: a KeyError
\* when the role has a time window and the person has no entry for it
RoleTimeWindowRule_raises(p, role, event_date, preacher) ==
    RoleTimeWindowOf(role) # NoDate /\ role \notin DOMAIN last_assigned_dates[p]

RoleTimeWindowRule(p, role, event_date, preacher) ==
    IF RoleTimeWindowOf(role) = NoDate THEN TRUE
    ELSE LET last_assigned_date == last_assigned_dates[p][role]
         IN  last_assigned_date = NoDate
                \/ event_date - last_assigned_date > RoleTimeWindowOf(role)

\* counts the entries of the list assigned_dates + preaching_dates
ConsecutiveAssignmentLimitRule(p, role, event_date, preacher) ==
    LET past_reference_date == event_date - CONSECUTIVE_ASSIGNMENTS_LIMIT * DaysPerWeek
        all_dates == assigned_dates[p] \o team[p].preaching_dates
        dates_within_time_window ==
            { i \in 1..Len(all_dates) :
                past_reference_date <= all_dates[i] /\ all_dates[i] <= event_date }
    IN  Cardinality(dates_within_time_window) < CONSECUTIVE_ASSIGNMENTS_LIMIT

ConsecutiveRoleAssignmentLimitRule_lax(assignment_limit, p, role, event_date) ==
    LET time_window == assignment_limit * DaysPerWeek
        of_role == role_assigned_dates[p][role]
        past_assigned_dates ==
            { i \in 1..Len(of_role) : event_date - of_role[i] <= time_window }
    IN  Cardinality(past_assigned_dates) <= assignment_limit

\* ConsecutiveRoleAssignmentLimitRule(assignment_limit).is_eligible: counts
\* the entries of role_assigned_dates[role] with
\* event_date - assigned_date <= time_window
ConsecutiveRoleAssignmentLimitRule_is_eligible(assignment_limit, p, role, event_date) ==
    LET time_window == assignment_limit * DaysPerWeek
        of_role == role_assigned_dates[p][role]
        past_assigned_dates ==
            { i \in 1..Len(of_role) : event_date - of_role[i] <= time_window }
    IN  Cardinality(past_assigned_dates) < assignment_limit

\* built with assignment_limit = default_role_assignment_limit
ConsecutiveRoleAssignmentLimitRule(p, role, event_date, preacher) ==
    ConsecutiveRoleAssignmentLimitRule_is_eligible(
        default_role_assignment_limit, p, role, event_date)

WorshipLeaderTeachingRule(p, role, event_date, preacher) ==
    IF role = "WORSHIPLEADER" THEN event_date \notin team[p].teaching_dates ELSE TRUE

WorshipLeaderPreachingConflictRule_lax(p, role, event_date, preacher) ==
    IF role = "WORSHIPLEADER"
    THEN LET next_date == get_next_preaching_date(team[p], event_date)
         IN  next_date = NoDate \/ next_date - event_date >= PREACHING_TIME_WINDOW
    ELSE TRUE

WorshipLeaderPreachingConflictRule(p, role, event_date, preacher) ==
    IF role = "WORSHIPLEADER"
    THEN LET next_date == get_next_preaching_date(team[p], event_date)
         IN  next_date = NoDate \/ next_date - event_date > PREACHING_TIME_WINDOW
    ELSE TRUE

LuluEmceeRule_without_preacher(p, role, event_date, preacher) ==
    IF team[p].name = "Lulu" /\ role = "EMCEE"
    THEN preacher = Unassigned \/ preacher = "Edmund"
    ELSE TRUE

LuluEmceeRule(p, role, event_date, preacher) ==
    IF team[p].name = "Lulu" /\ role = "EMCEE"
    THEN preacher # Unassigned /\ preacher = "Edmund"
    ELSE TRUE

GeeWorshipLeaderRule(p, role, event_date, preacher) ==
    IF team[p].name = "Gee" /\ role = "WORSHIPLEADER"
    THEN preacher = Unassigned \/ preacher # "Kris"
    ELSE TRUE

RuleNames ==
    { "RoleCapabilityRule", "OnLeaveRule", "BlockoutDateRule", "PreachingDateRule",
      "RoleTimeWindowRule", "ConsecutiveAssignmentLimitRule",
      "ConsecutiveRoleAssignmentLimitRule", "WorshipLeaderTeachingRule",
      "WorshipLeaderPreachingConflictRule", "LuluEmceeRule", "GeeWorshipLeaderRule" }

\* rule.is_eligible(person, role, event_date, preacher) raises
rule_raises(rule, p, role, event_date, preacher) ==
    rule = "RoleTimeWindowRule" /\ RoleTimeWindowRule_raises(p, role, event_date, preacher)

\* rule.is_eligible(person, role, event_date, preacher), dispatched on the
\* rule's class
rule_is_eligible(rule, p, role, event_date, preacher) ==
    CASE rule = "RoleCapabilityRule" -> RoleCapabilityRule(p, role, event_date, preacher)
      [] rule = "OnLeaveRule" -> OnLeaveRule(p, role, event_date, preacher)
      [] rule = "BlockoutDateRule" -> BlockoutDateRule(p, role, event_date, preacher)
      [] rule = "PreachingDateRule" -> PreachingDateRule(p, role, event_date, preacher)
      [] rule = "RoleTimeWindowRule" -> RoleTimeWindowRule(p, role, event_date, preacher)
      [] rule = "ConsecutiveAssignmentLimitRule" ->
            ConsecutiveAssignmentLimitRule(p, role, event_date, preacher)
      [] rule = "ConsecutiveRoleAssignmentLimitRule" ->
            ConsecutiveRoleAssignmentLimitRule(p, role, event_date, preacher)
      [] rule = "WorshipLeaderTeachingRule" ->
            WorshipLeaderTeachingRule(p, role, event_date, preacher)
      [] rule = "WorshipLeaderPreachingConflictRule" ->
            WorshipLeaderPreachingConflictRule(p, role, event_date, preacher)
      [] rule = "LuluEmceeRule" -> LuluEmceeRule(p, role, event_date, preacher)
      [] rule = "GeeWorshipLeaderRule" -> GeeWorshipLeaderRule(p, role, event_date, preacher)

-----------------------------------------------------------------------------
(* EligibilityChecker.is_eligible (eligibility/eligibility_checker.py)     *)

is_eligible_goes_on(result) == FALSE

\* EligibilityChecker.is_eligible: "if not result: return False"
is_eligible_returns_early(result) == ~result

\* rule lists: up to MaxRules rules, each rule class at most once
RuleLists ==
    { s \in SeqsUpTo(RuleNames, MaxRules) : \A i, j \in 1..Len(s) : s[i] = s[j] => i = j }

CheckRoles == { "WORSHIPLEADER", "EMCEE" }

CheckWeeks == 0..2

\* the person was assigned the role on each of the first n Sundays
RECURSIVE Assigned_dates(_), Assigned_last(_, _, _), Assigned_role_dates(_, _)
Assigned_dates(n) ==
    IF n = 0 THEN Person_init_assigned_dates
    ELSE assign_event_assigned_dates(Assigned_dates(n - 1), D(n - 1))
Assigned_last(person, role, n) ==
    IF n = 0 THEN Person_init_last_assigned_dates(person)
    ELSE assign_event_last_assigned_dates(Assigned_last(person, role, n - 1), role, D(n - 1))
Assigned_role_dates(role, n) ==
    IF n = 0 THEN Person_init_role_assigned_dates
    ELSE assign_event_role_assigned_dates(Assigned_role_dates(role, n - 1), role, D(n - 1))

\* EligibilityChecker(rules) and the arguments of one is_eligible call: the
\* preacher is the one listed for the event date; the person checked took
\* the role on every Sunday before the event date when capable of it, the
\* others are freshly constructed
CheckInit ==
    /\ undo_stack = <<>>
    /\ redo_stack = <<>>
    /\ sheet = NoSheet
    /\ handler = NoHandler
    /\ rules \in RuleLists
    /\ team = Roster
    /\ preachers \in PreacherInputs
    /\ \E p \in 1..Len(team), role \in CheckRoles, w \in CheckWeeks :
        LET n == IF role \in team[p].roles THEN w ELSE 0
        IN  /\ check = [person |-> p, role |-> role, event_date |-> D(w),
                        preacher |-> get_assigned_preacher_name(D(w))]
            /\ assigned_dates =
                 [q \in 1..Len(team) |->
                    IF q = p THEN Assigned_dates(n) ELSE Person_init_assigned_dates]
            /\ last_assigned_dates =
                 [q \in 1..Len(team) |->
                    IF q = p THEN Assigned_last(team[q], role, n)
                    ELSE Person_init_last_assigned_dates(team[q])]
            /\ role_assigned_dates =
                 [q \in 1..Len(team) |->
                    IF q = p THEN Assigned_role_dates(role, n)
                    ELSE Person_init_role_assigned_dates]
    /\ team_none = FALSE
    /\ event_dates = <<>>
    /\ events = <<>>
    /\ rotation = <<>>
    /\ worship_leader_index = 0
    /\ pc = "check"
    /\ di = 0
    /\ ri = 1
    /\ team_copy = <<>>
    /\ event = Event_init(NoDate)
    /\ ret = NoReturn
    /\ calls = <<>>

\* one pass of "for rule in self.rules": evaluate the rule, return False
\* when its result is false
CheckRule ==
    /\ pc = "check"
    /\ ri <= Len(rules)
    /\ LET rule == rules[ri]
           raises == rule_raises(rule, check.person, check.role, check.event_date,
                                 check.preacher)
           result == IF raises THEN FALSE
                     ELSE rule_is_eligible(rule, check.person, check.role,
                                           check.event_date, check.preacher)
       IN  /\ calls' = Append(calls, [rule |-> rule, raises |-> raises, result |-> result])
           /\ IF raises
              THEN /\ ret' = [kind |-> "error"]
                   /\ pc' = "done"
                   /\ ri' = ri
              ELSE IF is_eligible_returns_early(result)
              THEN /\ ret' = [kind |-> "bool", value |-> FALSE]
                   /\ pc' = "done"
                   /\ ri' = ri
              ELSE /\ ret' = ret
                   /\ pc' = pc
                   /\ ri' = ri + 1
    /\ UNCHANGED <<undo_stack, redo_stack, sheet, handler, rules, check, team, team_none, event_dates, preachers, events,
                   rotation, worship_leader_index, assigned_dates,
                   last_assigned_dates, role_assigned_dates, di, team_copy, event>>

\* the loop ran out of rules: "return True"
CheckReturnTrue ==
    /\ pc = "check"
    /\ ri > Len(rules)
    /\ ret' = [kind |-> "bool", value |-> TRUE]
    /\ pc' = "done"
    /\ UNCHANGED <<undo_stack, redo_stack, sheet, handler, rules, check, team, team_none, event_dates, preachers, events,
                   rotation, worship_leader_index, assigned_dates,
                   last_assigned_dates, role_assigned_dates, di, ri, team_copy,
                   event, calls>>

CheckNext == CheckRule \/ CheckReturnTrue

SpecChecker == CheckInit /\ [][CheckNext]_vars

\* rule i of the list returns true for the arguments of the call
RulePasses(i) ==
    /\ ~rule_raises(rules[i], check.person, check.role, check.event_date, check.preacher)
    /\ rule_is_eligible(rules[i], check.person, check.role, check.event_date,
                        check.preacher)

\* the first rule of the list that does not return true, 0 when all do
FirstNotPassing ==
    IF \A i \in 1..Len(rules) : RulePasses(i) THEN 0
    ELSE CHOOSE i \in 1..Len(rules) :
            ~RulePasses(i) /\ \A j \in 1..(i - 1) : RulePasses(j)

\* C9: is_eligible returns true iff every configured rule returns true (so
\* true for no rules); the rules are evaluated in list order, and the first
\* rule that returns false is the last one evaluated.
C9_AllRulesShortCircuit ==
    (check # NoCheck /\ pc = "done") =>
        /\ ret.kind = "bool" =>
              ret.value = (\A i \in 1..Len(rules) : RulePasses(i))
        /\ Len(calls) = (IF FirstNotPassing = 0 THEN Len(rules) ELSE FirstNotPassing)
        /\ \A k \in 1..Len(calls) : calls[k].rule = rules[k]
        /\ \A k \in 1..Len(calls) : ~calls[k].result => k = Len(calls)

\* C9 reached: the second of three rules returned false and the third,
\* which would pass, was not evaluated
C9_Witness ==
    /\ check # NoCheck /\ pc = "done"
    /\ Len(rules) = 3
    /\ Len(calls) = 2
    /\ calls[1].result /\ ~calls[2].result /\ ~calls[2].raises
    /\ ret = [kind |-> "bool", value |-> FALSE]
    /\ RulePasses(3)

-----------------------------------------------------------------------------
(* EditAssignmentCommand (ui/command.py) and the undo / redo stacks of     *)
(* UIManager (ui/ui_manager.py)                                            *)

is_assignable_if_needed_while_preaching(ev, role, p) ==
    /\ ~team[p].on_leave
    /\ role \in team[p].roles
    /\ ev.date \notin team[p].blockout_dates

\* Event.is_assignable_if_needed(role, person)
is_assignable_if_needed(ev, role, p) ==
    /\ ~team[p].on_leave
    /\ role \in team[p].roles
    /\ ev.date \notin team[p].blockout_dates
    /\ ev.date \notin Range(team[p].preaching_dates)

\* UIScheduleHandler.get_available_replacements_for_event, as team positions
get_available_replacements_for_event(ev, role) ==
    { p \in 1..Len(team) : is_assignable_if_needed(ev, role, p) }

\* Event.get_person_by_name: the first team member of that name, or None
get_person_by_name(name) ==
    IF \E p \in 1..Len(team) : team[p].name = name
    THEN CHOOSE p \in 1..Len(team) :
            team[p].name = name /\ \A q \in 1..(p - 1) : team[q].name # name
    ELSE NoPerson

\* the part of the program state an Event call works on
Assignments ==
    [events |-> events, assigned_dates |-> assigned_dates,
     last_assigned_dates |-> last_assigned_dates,
     role_assigned_dates |-> role_assigned_dates, raised |-> FALSE]

\* events[e].assign_role(role, team[p]) on the assignments st
do_assign_role(st, e, role, p) ==
    IF ~assign_role_allowed(st.events[e], role) THEN [st EXCEPT !.raised = TRUE]
    ELSE [st EXCEPT
            !.events[e] = [assign_role_slot(@, role, team[p].name)
                              EXCEPT !.holder[role] = p],
            !.assigned_dates[p] = assign_event_assigned_dates(@, st.events[e].date),
            !.last_assigned_dates[p] =
                assign_event_last_assigned_dates(@, role, st.events[e].date),
            !.role_assigned_dates[p] =
                assign_event_role_assigned_dates(@, role, st.events[e].date)]

\* events[e].unassign_role(role, team[p]) on the assignments st
do_unassign_role(st, e, role, p) ==
    IF ~unassign_role_allowed(st.events[e], role, team[p].name)
    THEN [st EXCEPT !.raised = TRUE]
    ELSE LET rad_left == unassign_event_role_assigned_dates(
                             st.role_assigned_dates[p], role, st.events[e].date)
         IN  [st EXCEPT
                !.events[e] = unassign_role_slot(@, role),
                !.assigned_dates[p] = unassign_event_assigned_dates(@, st.events[e].date),
                !.role_assigned_dates[p] = rad_left,
                !.last_assigned_dates[p] =
                    unassign_event_last_assigned_dates(@, rad_left, role)]

\* the Event calls a command makes, in the order it makes them; a call whose
\* person is None is skipped
RECURSIVE do_event_calls(_, _, _)
do_event_calls(st, cmd, event_calls) ==
    IF event_calls = <<>> \/ st.raised THEN st
    ELSE LET c == Head(event_calls)
             st1 == IF c.op = "unassign_role"
                    THEN do_unassign_role(st, cmd.ev, cmd.role, c.person)
                    ELSE do_assign_role(st, cmd.ev, cmd.role, c.person)
         IN  do_event_calls(st1, cmd, Tail(event_calls))

SkipNone(event_calls) == SelectSeq(event_calls, LAMBDA c : c.person # NoPerson)

\* EditAssignmentCommand.execute: unassign old_person, then assign new_person
execute_event_calls(cmd) ==
    SkipNone(<< [op |-> "unassign_role", person |-> cmd.old_person],
                [op |-> "assign_role", person |-> cmd.new_person] >>)

\* EditAssignmentCommand.undo: unassign new_person, then assign old_person
undo_event_calls(cmd) ==
    SkipNone(<< [op |-> "unassign_role", person |-> cmd.new_person],
                [op |-> "assign_role", person |-> cmd.old_person] >>)

command_execute(st, cmd) == do_event_calls(st, cmd, execute_event_calls(cmd))

command_undo(st, cmd) == do_event_calls(st, cmd, undo_event_calls(cmd))

\* UIManager._execute_edit_command: self.redo_stack.clear()
execute_clears_redo_stack(redo) == <<>>

CmdTeam == PickSeq(Roster, {1, 2})

CmdRoles == { "WORSHIPLEADER", "EMCEE" }

\* the schedule on display: one event, or one event on each of two Sundays
CmdDateLists == { << D(0) >>, << D(0), D(1) >> }

\* a multiset of dates, as date -> number of occurrences in the list
DateBag(dates) ==
    [d \in Range(dates) |-> Cardinality({ i \in 1..Len(dates) : dates[i] = d })]

\* the assignment history of one Person (None for no person); the date lists
\* are compared as multisets
PersonHistory(st, p) ==
    IF p = NoPerson THEN [person |-> NoPerson]
    ELSE [person |-> p,
          assigned_dates |-> DateBag(st.assigned_dates[p]),
          last_assigned_dates |-> st.last_assigned_dates[p],
          role_assigned_dates |->
              [r \in CmdRoles |-> DateBag(st.role_assigned_dates[p][r])]]

\* what a command touches: its role slot and the histories of its two persons
Touched(st, cmd) ==
    IF cmd.ev = 0 THEN [slot |-> Unassigned] ELSE
    [slot |-> st.events[cmd.ev].roles[cmd.role],
     old_person |-> PersonHistory(st, cmd.old_person),
     new_person |-> PersonHistory(st, cmd.new_person)]

\* the role slots of every event
Slots(st) == [e \in 1..Len(st.events) |-> st.events[e].roles]

\* App.calculate_preaching_date_range and
\* UIScheduleHandler._calculate_preaching_date_range: ValueError without
\* preachers or without any preaching date, else the least and the greatest
\* of all preaching dates
calculate_preaching_date_range(ps) ==
    LET all_dates == UNION { ps[i].dates : i \in 1..Len(ps) }
    IN  IF ps = <<>> \/ all_dates = {}
        THEN [raised |-> TRUE, earliest_date |-> NoDate, latest_date |-> NoDate]
        ELSE [raised |-> FALSE,
              earliest_date |-> CHOOSE d \in all_dates : \A x \in all_dates : d <= x,
              latest_date |-> CHOOSE d \in all_dates : \A x \in all_dates : d >= x]

\* the preacher lists a schedule on display can come from: the handler was
\* constructed with them and the dates of the schedule were adjusted into
\* their date range (validate_dates / adjust_dates_within_range)
CmdPreachers(dates) ==
    { ps \in PreacherInputs \cup { << [name |-> "Edmund", dates |-> {D(0), D(2)}] >> } :
        LET range == calculate_preaching_date_range(ps)
        IN  /\ ~range.raised
            /\ \A i \in 1..Len(dates) :
                  range.earliest_date <= dates[i] /\ dates[i] <= range.latest_date }

\* the EditAssignmentCommand classes on_dropdown_select can meet: the one of
\* ui/command.py, constructed with tree, row_id and column_index, and one
\* constructed with sheet, row and column
CommandClasses == { "tree", "sheet" }

\* EditAssignmentCommand(event=, role=, old_person=, new_person=, sheet=, row=,
\* column=, logger=): the class of ui/command.py knows no sheet (TypeError)
command_class_raises(command_class) == command_class = "tree"

\* get_schedule_data_for_csv over events of models/event.py: the preacher
\* row reads event.get_assigned_preacher without calling it, and .name of
\* the bound method raises AttributeError for the first event
get_schedule_data_for_csv_raises(evs) == evs # <<>>

\* the sheet show_schedule_popup fills from a table of the events: a cell
\* for every role slot of every event
SheetOf(evs, command_class) ==
    [cells |-> [i \in 1..Len(evs) |-> evs[i].roles],
     dropdown |-> NoDropdown, opened |-> 0, command_class |-> command_class]

\* UIManager.show_schedule_popup over Event(date, team, preachers) for each
\* date and freshly constructed persons: both stacks are reset, then either
\* the table builder raises and no sheet is made, or (with a table builder
\* that gets the preacher of an event) the sheet is on display
CmdInit ==
    /\ undo_stack = <<>>
    /\ redo_stack = <<>>
    /\ handler = NoHandler
    /\ rules = <<>>
    /\ check = NoCheck
    /\ team = CmdTeam
    /\ team_none = FALSE
    /\ event_dates \in CmdDateLists
    /\ events = [i \in 1..Len(event_dates) |-> Event_init(event_dates[i])]
    /\ preachers \in CmdPreachers(event_dates)
    /\ rotation = <<>>
    /\ worship_leader_index = 0
    /\ assigned_dates = [p \in 1..Len(team) |-> Person_init_assigned_dates]
    /\ last_assigned_dates = [p \in 1..Len(team) |-> Person_init_last_assigned_dates(team[p])]
    /\ role_assigned_dates = [p \in 1..Len(team) |-> Person_init_role_assigned_dates]
    /\ di = 0
    /\ ri = 0
    /\ team_copy = <<>>
    /\ event = Event_init(NoDate)
    /\ \/ /\ get_schedule_data_for_csv_raises(events)
          /\ sheet = NoSheet
          /\ pc = "raised"
          /\ ret = [kind |-> "error"]
       \/ /\ sheet \in { SheetOf(events, c) : c \in CommandClasses }
          /\ pc = "popup"
          /\ ret = NoReturn
    /\ calls = <<>>

\* the frame of the UIManager actions
CmdFrame ==
    UNCHANGED <<handler, rules, check, team, team_none, event_dates, preachers,
                rotation, worship_leader_index, pc, di, ri, team_copy, event>>

\* the assignments st become the program state
CmdCommit(st) ==
    /\ events' = st.events
    /\ assigned_dates' = st.assigned_dates
    /\ last_assigned_dates' = st.last_assigned_dates
    /\ role_assigned_dates' = st.role_assigned_dates
    /\ ret' = IF st.raised THEN [kind |-> "error"] ELSE [kind |-> "ok"]

\* no command: what an undo or redo on an empty stack runs
NoCommand == [ev |-> 0, role |-> Unassigned, old_person |-> NoPerson,
              new_person |-> NoPerson]

\* the last action, as the properties below read it
CmdRecord(op, cmd, invoked, event_calls, st) ==
    [op |-> op, cmd |-> cmd, invoked |-> invoked, event_calls |-> event_calls,
     raised |-> st.raised,
     undo_before |-> undo_stack, redo_before |-> redo_stack,
     slots_before |-> Slots(Assignments),
     touched_before |-> Touched(Assignments, cmd),
     touched_after |-> Touched(st, cmd),
     prev |-> IF calls = <<>> THEN [op |-> "none", cmd |-> NoCommand]
              ELSE [op |-> calls[1].op, cmd |-> calls[1].cmd,
                    raised |-> calls[1].raised,
                    touched_before |-> calls[1].touched_before,
                    touched_after |-> calls[1].touched_after,
                    follows_execute |->
                        /\ calls[1].op = "undo"
                        /\ calls[1].prev.op \in {"execute", "redo"}
                        /\ ~calls[1].prev.raised
                        /\ calls[1].prev.cmd = calls[1].cmd]]

\* EditAssignmentCommand.__init__: its debug message formats the event, and
\* Event.__str__ reads preacher.name of get_assigned_preacher(), which is
\* None for a date nobody preaches on (AttributeError)
command_init_raises(ev) == get_assigned_preacher_name(ev.date) = Unassigned

\* the sheet after the command wrote name into its cell
update_cell(cells, cmd, name) == [cells EXCEPT ![cmd.ev][cmd.role] = name]

\* on_click: the text of the selected cell is read, the replacements for the
\* event and role are looked up and, if there are any, a dropdown with them
\* and a blank entry is opened in the cell in place of any other dropdown;
\* on_dropdown_select is bound with the text read here (opened counts the
\* dropdowns opened so far, at most MaxCmds)
CmdClick ==
    /\ pc = "popup"
    /\ sheet.opened < MaxCmds
    /\ \E e \in 1..Len(events), role \in CmdRoles :
          LET available_names ==
                  { team[p].name : p \in get_available_replacements_for_event(events[e], role) }
          IN  /\ available_names # {}
              /\ sheet' = [sheet EXCEPT
                              !.dropdown =
                                  [ev |-> e, role |-> role,
                                   currently_assigned_name |-> sheet.cells[e][role],
                                   values |-> { Unassigned } \cup available_names],
                              !.opened = @ + 1]
    /\ UNCHANGED <<undo_stack, redo_stack, events, assigned_dates, last_assigned_dates,
                   role_assigned_dates, ret, calls>>
    /\ CmdFrame

\* on_dropdown_select: an entry of the open dropdown was picked, stands in
\* the cell and the dropdown box is closed (it opens again with the next click
\* on a cell); unless the entry is the text on_click read, the command is
\* built from that text and the picked name (the constructor may raise, and
\* then nothing is run) and run by _execute_edit_command
CmdDropdownSelect ==
    /\ pc = "popup"
    /\ sheet.dropdown.ev # 0
    /\ \E selected_name \in sheet.dropdown.values :
          LET e == sheet.dropdown.ev
              role == sheet.dropdown.role
              currently_assigned_name == sheet.dropdown.currently_assigned_name
              cmd == [ev |-> e, role |-> role,
                      old_person |-> IF currently_assigned_name # Unassigned
                                     THEN get_person_by_name(currently_assigned_name)
                                     ELSE NoPerson,
                      new_person |-> IF selected_name # Unassigned
                                     THEN get_person_by_name(selected_name)
                                     ELSE NoPerson]
              st == command_execute(Assignments, cmd)
          IN  /\ sheet' = [sheet EXCEPT !.cells[e][role] = selected_name,
                                        !.dropdown = NoDropdown]
              /\ IF selected_name = currently_assigned_name
                 THEN UNCHANGED <<undo_stack, redo_stack, events, assigned_dates,
                                  last_assigned_dates, role_assigned_dates, ret, calls>>
                 ELSE IF \/ command_class_raises(sheet.command_class)
                         \/ command_init_raises(events[e])
                 THEN /\ ret' = [kind |-> "error"]
                      /\ calls' = << CmdRecord("construct", cmd, <<>>, <<>>, Assignments) >>
                      /\ UNCHANGED <<undo_stack, redo_stack, events, assigned_dates,
                                     last_assigned_dates, role_assigned_dates>>
                 ELSE /\ CmdCommit(st)
                      /\ calls' = << CmdRecord("execute", cmd,
                                               << [cmd |-> cmd, method |-> "execute"] >>,
                                               execute_event_calls(cmd), st) >>
                      /\ IF st.raised
                         THEN UNCHANGED <<undo_stack, redo_stack>>
                         ELSE /\ undo_stack' = Append(undo_stack, cmd)
                              /\ redo_stack' = execute_clears_redo_stack(redo_stack)
    /\ CmdFrame

\* UIManager._undo_last_edit
CmdUndo ==
    /\ pc = "popup"
    /\ IF undo_stack # <<>>
       THEN LET cmd == undo_stack[Len(undo_stack)]
                st == command_undo(Assignments, cmd)
            IN  /\ CmdCommit(st)
                /\ undo_stack' = SubSeq(undo_stack, 1, Len(undo_stack) - 1)
                /\ redo_stack' = IF st.raised THEN redo_stack ELSE Append(redo_stack, cmd)
                /\ sheet' = IF st.raised THEN sheet
                            ELSE [sheet EXCEPT !.cells =
                                     update_cell(@, cmd, NameOfPerson(cmd.old_person))]
                /\ calls' = << CmdRecord("undo", cmd, << [cmd |-> cmd, method |-> "undo"] >>,
                                         undo_event_calls(cmd), st) >>
       ELSE /\ CmdCommit(Assignments)
            /\ UNCHANGED <<undo_stack, redo_stack, sheet>>
            /\ calls' = << CmdRecord("undo", NoCommand, <<>>, <<>>, Assignments) >>
    /\ CmdFrame

\* UIManager._redo_last_edit
CmdRedo ==
    /\ pc = "popup"
    /\ IF redo_stack # <<>>
       THEN LET cmd == redo_stack[Len(redo_stack)]
                st == command_execute(Assignments, cmd)
            IN  /\ CmdCommit(st)
                /\ redo_stack' = SubSeq(redo_stack, 1, Len(redo_stack) - 1)
                /\ undo_stack' = IF st.raised THEN undo_stack ELSE Append(undo_stack, cmd)
                /\ sheet' = IF st.raised THEN sheet
                            ELSE [sheet EXCEPT !.cells =
                                     update_cell(@, cmd, NameOfPerson(cmd.new_person))]
                /\ calls' = << CmdRecord("redo", cmd, << [cmd |-> cmd, method |-> "execute"] >>,
                                         execute_event_calls(cmd), st) >>
       ELSE /\ CmdCommit(Assignments)
            /\ UNCHANGED <<undo_stack, redo_stack, sheet>>
            /\ calls' = << CmdRecord("redo", NoCommand, <<>>, <<>>, Assignments) >>
    /\ CmdFrame

CmdNext == CmdClick \/ CmdDropdownSelect \/ CmdUndo \/ CmdRedo

SpecCmd == CmdInit /\ [][CmdNext]_vars

\* C13: execute unassigns the old person before it assigns the new one and
\* undo unassigns the new person before it assigns the old one; an undo that
\* directly follows the execute leaves the role slot and both persons'
\* histories as they were before the execute, and a redo directly after
\* that leaves them as they were after the execute.
C13_ExecuteUndoRedoRoundTrip ==
    (pc = "popup" /\ calls # <<>> /\ calls[1].cmd # NoCommand) =>
        LET c == calls[1]
            unassign(p) == IF p = NoPerson THEN <<>>
                           ELSE << [op |-> "unassign_role", person |-> p] >>
            assign(p) == IF p = NoPerson THEN <<>>
                         ELSE << [op |-> "assign_role", person |-> p] >>
        IN  /\ c.op \in {"execute", "redo"} =>
                  c.event_calls = unassign(c.cmd.old_person) \o assign(c.cmd.new_person)
            /\ c.op = "undo" =>
                  c.event_calls = unassign(c.cmd.new_person) \o assign(c.cmd.old_person)
            /\ (c.op = "undo" /\ c.prev.op \in {"execute", "redo"} /\ ~c.prev.raised
                    /\ c.prev.cmd = c.cmd) =>
                  c.touched_after = c.prev.touched_before
            /\ (c.op = "redo" /\ c.prev.op = "undo" /\ c.prev.cmd = c.cmd
                    /\ c.prev.follows_execute) =>
                  c.touched_after = c.prev.touched_before

\* the last element of a non-empty stack, and the stack without it
Top(stack) == stack[Len(stack)]
Pop(stack) == SubSeq(stack, 1, Len(stack) - 1)

\* C14: a new command is run once, pushed on the undo stack, and the redo
\* stack is emptied; undo moves the top of the undo stack to the redo stack
\* and runs its undo once; redo moves the top of the redo stack back and
\* runs its execute once; undo / redo on an empty stack change neither
\* stack, run no command and leave the schedule alone.
C14_UndoRedoStacks ==
    (pc = "popup" /\ calls # <<>>) =>
        LET c == calls[1] IN
        /\ c.op = "execute" =>
              /\ undo_stack = Append(c.undo_before, c.cmd)
              /\ redo_stack = <<>>
              /\ c.invoked = << [cmd |-> c.cmd, method |-> "execute"] >>
        /\ (c.op = "undo" /\ c.undo_before # <<>>) =>
              /\ undo_stack = Pop(c.undo_before)
              /\ redo_stack = Append(c.redo_before, Top(c.undo_before))
              /\ c.invoked = << [cmd |-> Top(c.undo_before), method |-> "undo"] >>
        /\ (c.op = "redo" /\ c.redo_before # <<>>) =>
              /\ redo_stack = Pop(c.redo_before)
              /\ undo_stack = Append(c.undo_before, Top(c.redo_before))
              /\ c.invoked = << [cmd |-> Top(c.redo_before), method |-> "execute"] >>
        /\ (c.op = "undo" /\ c.undo_before = <<>>) \/ (c.op = "redo" /\ c.redo_before = <<>>) =>
              /\ undo_stack = c.undo_before
              /\ redo_stack = c.redo_before
              /\ c.invoked = <<>>
              /\ Slots(Assignments) = c.slots_before

\* C15: running an edit command for one (event, role) leaves every other
\* role slot of that event and every role slot of every other event with
\* the assignee it had.
C15_EditChangesOneSlot ==
    (pc = "popup" /\ calls # <<>> /\ calls[1].op \in {"execute", "redo"}
        /\ calls[1].cmd # NoCommand) =>
        \A e \in 1..Len(events) : \A role \in Role :
            (e # calls[1].cmd.ev \/ role # calls[1].cmd.role)
                => events[e].roles[role] = calls[1].slots_before[e][role]

\* C15 reached: a command put a person in one slot while another slot of
\* the same event and a slot of another event were filled
C15_Witness ==
    /\ pc = "popup" /\ calls # <<>> /\ calls[1].op = "execute"
    /\ calls[1].cmd.new_person # NoPerson
    /\ events[calls[1].cmd.ev].roles[calls[1].cmd.role]
          = team[calls[1].cmd.new_person].name
    /\ \E role \in Role :
          /\ role # calls[1].cmd.role
          /\ events[calls[1].cmd.ev].roles[role] # Unassigned
    /\ \E e \in 1..Len(events) : \E role \in Role :
          /\ e # calls[1].cmd.ev
          /\ events[e].roles[role] # Unassigned

-----------------------------------------------------------------------------
(* App.create_schedule (ui/application.py) and                             *)
(* UIScheduleHandler.build_schedule (ui/ui_schedule_handler.py): a deep    *)
(* copy of the caller's team is handed to Schedule.build                   *)

\* get_all_sundays(start_date, end_date) for the Sundays of weeks a..b
get_all_sundays(a, b) == [i \in 1..(b - a + 1) |-> D(a + i - 1)]

\* the Person objects of self.team itself, by object identity
copy_reference(team_ids, allocated) == team_ids

\* copy.deepcopy(self.team): a list of newly allocated Person objects, one
\* for each person of self.team, beyond the allocated objects so far
copy_deepcopy(team_ids, allocated) ==
    [p \in 1..Len(team_ids) |-> allocated + p]

\* the preacher lists an App or a UIScheduleHandler can be constructed with:
\* the constructor raises unless there is a preaching date
HandlerPreachers ==
    { ps \in PreacherInputs \cup { << [name |-> "Edmund", dates |-> { D(0) }] >> } :
        ~calculate_preaching_date_range(ps).raised }

\* the schedule classes a UIScheduleHandler is constructed with: Schedule of
\* builders/schedule.py, and a schedule class that takes the handler's
\* worship_leader_selector and eligibility_checker
ScheduleClasses == { "Schedule", "SelectorSchedule" }

\* schedule_class(team=, event_dates=, preachers=, worship_leader_selector=,
\* eligibility_checker=): Schedule.__init__ knows no worship_leader_selector
\* (TypeError)
schedule_class_raises(schedule_class) == schedule_class = "Schedule"

HandlerTeams ==
    { PickSeq(Roster, {1, 2}), PickSeq(Roster, {2, 3}),
      << NoConstraints("Zed", {"WORSHIPLEADER"}), Roster[1] >> }

\* the assignment history of the team Schedule.build works on
BuiltHistory ==
    [assigned_dates |-> assigned_dates,
     last_assigned_dates |-> last_assigned_dates,
     role_assigned_dates |-> role_assigned_dates]

\* the positions of the schedule's team that hold the Person object at
\* position p of self.team
SameObject(p) ==
    { q \in 1..Len(handler.schedule_team) :
        handler.schedule_team[q] = handler.team_ids[p] }

\* the assignment history of the caller's own team, read from the Person
\* objects of self.team: a person that is also in the schedule's team shows
\* what build has written
OwnHistory ==
    [assigned_dates |->
         [p \in 1..Len(team) |->
             IF SameObject(p) # {}
             THEN assigned_dates[CHOOSE q \in SameObject(p) : TRUE]
             ELSE handler.assigned_dates[p]],
     last_assigned_dates |->
         [p \in 1..Len(team) |->
             IF SameObject(p) # {}
             THEN last_assigned_dates[CHOOSE q \in SameObject(p) : TRUE]
             ELSE handler.last_assigned_dates[p]],
     role_assigned_dates |->
         [p \in 1..Len(team) |->
             IF SameObject(p) # {}
             THEN role_assigned_dates[CHOOSE q \in SameObject(p) : TRUE]
             ELSE handler.role_assigned_dates[p]]]

\* the index of the handler's one WorshipLeaderSelector: while a schedule
\* built by build_schedule is at work, the cursor it advances is that index;
\* the Schedule of create_schedule advances a cursor of its own
SelectorIndex ==
    IF pc # "idle" /\ calls # <<>> /\ calls[1].op = "build_schedule"
    THEN worship_leader_index
    ELSE handler.selector_index

\* the handler once team_copy = copy.deepcopy(self.team) is the team of a
\* new schedule: the copies are allocated, and the persons of self.team keep
\* what they hold
handler_with_team_copy ==
    [handler EXCEPT
        !.schedule_team = copy_deepcopy(handler.team_ids, handler.allocated),
        !.allocated = handler.allocated + Len(handler.team_ids),
        !.assigned_dates = OwnHistory.assigned_dates,
        !.last_assigned_dates = OwnHistory.last_assigned_dates,
        !.role_assigned_dates = OwnHistory.role_assigned_dates]

\* the history of a team of freshly constructed persons
InitialHistory ==
    [assigned_dates |-> [p \in 1..Len(team) |-> Person_init_assigned_dates],
     last_assigned_dates |->
         [p \in 1..Len(team) |-> Person_init_last_assigned_dates(team[p])],
     role_assigned_dates |->
         [p \in 1..Len(team) |-> Person_init_role_assigned_dates]]

\* App.__init__ / UIScheduleHandler.__init__ with freshly loaded persons
HandlerInit ==
    /\ undo_stack = <<>>
    /\ redo_stack = <<>>
    /\ sheet = NoSheet
    /\ rules = <<>>
    /\ check = NoCheck
    /\ team \in HandlerTeams
    /\ team_none = FALSE
    /\ handler \in
          { [schedule_class |-> c,
             builds |-> 0, built |-> <<>>, dates |-> <<>>, leader |-> Unassigned,
             team_ids |-> [p \in 1..Len(team) |-> p],
             allocated |-> Len(team),
             schedule_team |-> <<>>,
             selector_index |-> 0,
             assigned_dates |-> [p \in 1..Len(team) |-> Person_init_assigned_dates],
             last_assigned_dates |->
                 [p \in 1..Len(team) |-> Person_init_last_assigned_dates(team[p])],
             role_assigned_dates |->
                 [p \in 1..Len(team) |-> Person_init_role_assigned_dates]] :
            c \in ScheduleClasses }
    /\ event_dates = <<>>
    /\ preachers \in HandlerPreachers
    /\ rotation \in RotationInputs
    /\ worship_leader_index = 0
    /\ events = <<>>
    /\ assigned_dates = <<>>
    /\ last_assigned_dates = <<>>
    /\ role_assigned_dates = <<>>
    /\ pc = "idle"
    /\ di = 0
    /\ ri = 0
    /\ team_copy = <<>>
    /\ event = Event_init(NoDate)
    /\ ret = NoReturn
    /\ calls = <<>>

\* create_schedule / build_schedule up to the call of build: the Sundays of
\* the range, team_copy = copy.deepcopy(self.team), Schedule(team_copy, ...)
HandlerCreateSchedule ==
    /\ pc = "idle"
    /\ handler.builds < MaxBuilds
    /\ \E a \in 0..MaxHandlerWeek, b \in 0..MaxHandlerWeek :
          event_dates' = get_all_sundays(a, b)
    /\ handler' = handler_with_team_copy
    /\ assigned_dates' = OwnHistory.assigned_dates
    /\ last_assigned_dates' = OwnHistory.last_assigned_dates
    /\ role_assigned_dates' = OwnHistory.role_assigned_dates
    /\ events' = <<>>
    /\ worship_leader_index' = 0
    /\ pc' = "build"
    /\ di' = 1
    /\ ri' = 0
    /\ team_copy' = <<>>
    /\ event' = Event_init(NoDate)
    /\ ret' = NoReturn
    /\ calls' = << [op |-> "build", start |-> BuiltHistory'] >>
    /\ UNCHANGED <<undo_stack, redo_stack, sheet, rules, check, team, team_none,
                   preachers, rotation>>

\* a schedule class that takes the selector is constructed and about to
\* build over dates: it works on the copy of the team and asks the handler's
\* one WorshipLeaderSelector, whose index is the one the previous
\* build_schedule call left
SelectorScheduleStart(dates) ==
    /\ event_dates' = dates
    /\ handler' = handler_with_team_copy
    /\ assigned_dates' = OwnHistory.assigned_dates
    /\ last_assigned_dates' = OwnHistory.last_assigned_dates
    /\ role_assigned_dates' = OwnHistory.role_assigned_dates
    /\ events' = <<>>
    /\ pc' = "build"
    /\ di' = 1
    /\ ri' = 0
    /\ team_copy' = <<>>
    /\ event' = Event_init(NoDate)
    /\ ret' = NoReturn
    /\ worship_leader_index' = SelectorIndex

\* UIScheduleHandler.build_schedule up to the call of build: the Sundays of
\* the range, team_copy = copy.deepcopy(self.team), and the schedule class
\* called with the handler's selector and checker; Schedule raises TypeError
\* there, and build_schedule with it: nothing is built, and the copy of the
\* team is dropped with the exception
HandlerBuildSchedule ==
    /\ pc = "idle"
    /\ handler.builds < MaxBuilds
    /\ IF schedule_class_raises(handler.schedule_class)
       THEN /\ ret' = [kind |-> "error"]
            /\ calls' = << [op |-> "build_schedule", start |-> OwnHistory] >>
            /\ UNCHANGED <<handler, event_dates, assigned_dates, last_assigned_dates,
                           role_assigned_dates, events, pc, di, ri, team_copy, event,
                           worship_leader_index>>
       ELSE /\ \E a \in 0..MaxHandlerWeek, b \in 0..MaxHandlerWeek :
                  SelectorScheduleStart(get_all_sundays(a, b))
            /\ calls' = << [op |-> "build_schedule", start |-> BuiltHistory'] >>
    /\ UNCHANGED <<undo_stack, redo_stack, sheet, rules, check, team, team_none,
                   preachers, rotation>>

\* build has returned (or raised): the events and the team it was given go
\* back to the caller, and self.team is not assigned to; the handler's
\* selector keeps the index a build_schedule build left in it, and the
\* cursor of the Schedule of create_schedule goes with that Schedule
HandlerReturn ==
    /\ pc = "done"
    /\ handler' =
          [handler EXCEPT
              !.builds = handler.builds + 1,
              !.selector_index = SelectorIndex,
              !.built = assigned_dates,
              !.dates = event_dates,
              !.leader = IF events = <<>> THEN Unassigned
                         ELSE events[1].roles["WORSHIPLEADER"]]
    /\ pc' = "idle"
    /\ UNCHANGED <<undo_stack, redo_stack, sheet, rules, check, team, team_none,
                   event_dates, preachers, events, rotation, worship_leader_index,
                   assigned_dates, last_assigned_dates, role_assigned_dates,
                   di, ri, team_copy, event, ret, calls>>

HandlerNext ==
    \/ HandlerCreateSchedule
    \/ HandlerBuildSchedule
    \/ BuildNextDate \/ BuildRole \/ BuildAppendEvent \/ BuildReturn
    \/ HandlerReturn

SpecHandler == HandlerInit /\ [][HandlerNext]_vars

\* C16: whatever builds have been made or are being made, the Person
\* objects of the caller's own team hold empty assigned_dates and unset
\* last-assigned dates, no person of the team a schedule was given is a
\* person of the caller's own team, and the team every build was given held
\* that initial history when the build started.
C16_BuildLeavesOwnTeamAlone ==
    /\ OwnHistory = InitialHistory
    /\ \A p \in 1..Len(team) : SameObject(p) = {}
    /\ calls # <<>> => calls[1].start = InitialHistory

\* C16 reached: a second build has assigned persons of its copy of the team
\* after a first build that assigned persons of its own copy
C16_Witness ==
    /\ handler.builds = 1
    /\ \E p \in 1..Len(team) : handler.built[p] # <<>>
    /\ pc = "done"
    /\ ret = [kind |-> "pair"]
    /\ \E p \in 1..Len(team) : assigned_dates[p] # <<>>
    /\ \E p \in 1..Len(team) : OwnHistory.assigned_dates[p] = <<>>
    /\ handler.schedule_team # <<>>
    /\ calls # <<>>

-----------------------------------------------------------------------------
(* The three time-window rules of eligibility/rules.py asked about one     *)
(* person after a history of Person.assign_event calls                     *)

\* the event the rules are asked about lies one week beyond the longest
\* role time window after the first date of the histories
RuleEventDate == WORSHIP_LEADER_ROLE_TIME_WINDOW + DaysPerWeek

\* the dates of the histories: every Sunday up to one week after the event
RuleDates == { d \in 0..(RuleEventDate + DaysPerWeek) : d % DaysPerWeek = 0 }

RuleTeam ==
    << NoConstraints("Ann", {"WORSHIPLEADER", "EMCEE"}),
       [NoConstraints("Gee", {"WORSHIPLEADER", "ACOUSTIC"})
           EXCEPT !.preaching_dates = << RuleEventDate - DaysPerWeek >>],
       NoConstraints("Lulu", {"EMCEE", "SUNDAYSCHOOLTEACHER"}) >>

RuleRoles == { "WORSHIPLEADER", "EMCEE", "SUNDAYSCHOOLTEACHER", "ACOUSTIC" }

\* the limits ConsecutiveRoleAssignmentLimitRule is built with: the
\* scheduler's default and the one of the rule tests
RoleAssignmentLimits ==
    { default_role_assignment_limit, default_role_assignment_limit + 1 }

TimeWindowRules ==
    { "RoleTimeWindowRule", "ConsecutiveAssignmentLimitRule",
      "ConsecutiveRoleAssignmentLimitRule" }

\* freshly constructed persons; one of them is the person the rules are
\* asked about
RuleInit ==
    /\ undo_stack = <<>>
    /\ redo_stack = <<>>
    /\ sheet = NoSheet
    /\ handler = NoHandler
    /\ rules = <<>>
    /\ check \in { [NoCheck EXCEPT !.person = p, !.event_date = RuleEventDate] :
                      p \in 1..Len(RuleTeam) }
    /\ team = RuleTeam
    /\ team_none = FALSE
    /\ event_dates = <<>>
    /\ events = <<>>
    /\ preachers = <<>>
    /\ rotation = <<>>
    /\ worship_leader_index = 0
    /\ assigned_dates = [p \in 1..Len(team) |-> Person_init_assigned_dates]
    /\ last_assigned_dates = [p \in 1..Len(team) |-> Person_init_last_assigned_dates(team[p])]
    /\ role_assigned_dates = [p \in 1..Len(team) |-> Person_init_role_assigned_dates]
    /\ pc = "rule"
    /\ di = 0
    /\ ri = 0
    /\ team_copy = <<>>
    /\ event = Event_init(NoDate)
    /\ ret = NoReturn
    /\ calls = <<>>

\* person.assign_event(date, role) for one of the person's roles
RuleAssignEvent ==
    /\ pc = "rule"
    /\ Len(assigned_dates[check.person]) < MaxHistory
    /\ \E role \in team[check.person].roles, date \in RuleDates :
          /\ assigned_dates' =
                [assigned_dates EXCEPT ![check.person] =
                    assign_event_assigned_dates(@, date)]
          /\ last_assigned_dates' =
                [last_assigned_dates EXCEPT ![check.person] =
                    assign_event_last_assigned_dates(@, role, date)]
          /\ role_assigned_dates' =
                [role_assigned_dates EXCEPT ![check.person] =
                    assign_event_role_assigned_dates(@, role, date)]
    /\ calls' = <<>>
    /\ UNCHANGED <<undo_stack, redo_stack, sheet, handler, rules, check, team, team_none,
                   event_dates, preachers, events, rotation, worship_leader_index,
                   pc, di, ri, team_copy, event, ret>>

\* rule.is_eligible(person, role, event_date) for one of the three rules,
\* asked once at the end of the history
RuleIsEligible ==
    /\ pc = "rule"
    /\ \E rule \in TimeWindowRules, role \in RuleRoles,
          assignment_limit \in RoleAssignmentLimits :
          LET p == check.person
              raises == rule = "RoleTimeWindowRule"
                          /\ RoleTimeWindowRule_raises(p, role, check.event_date, Unassigned)
              result ==
                  CASE raises -> FALSE
                    [] rule = "RoleTimeWindowRule" /\ ~raises ->
                          RoleTimeWindowRule(p, role, check.event_date, Unassigned)
                    [] rule = "ConsecutiveAssignmentLimitRule" ->
                          ConsecutiveAssignmentLimitRule(p, role, check.event_date, Unassigned)
                    [] rule = "ConsecutiveRoleAssignmentLimitRule" ->
                          ConsecutiveRoleAssignmentLimitRule_is_eligible(
                              assignment_limit, p, role, check.event_date)
          IN  /\ rule # "ConsecutiveRoleAssignmentLimitRule"
                    => assignment_limit = default_role_assignment_limit
              /\ calls' = << [rule |-> rule, role |-> role,
                              assignment_limit |-> assignment_limit,
                              raises |-> raises, result |-> result] >>
              /\ ret' = IF raises THEN [kind |-> "error"]
                        ELSE [kind |-> "bool", value |-> result]
    /\ pc' = "asked"
    /\ UNCHANGED <<undo_stack, redo_stack, sheet, handler, rules, check, team, team_none,
                   event_dates, preachers, events, rotation, worship_leader_index,
                   assigned_dates, last_assigned_dates, role_assigned_dates,
                   di, ri, team_copy, event>>

RuleNext == RuleAssignEvent \/ RuleIsEligible

SpecRule == RuleInit /\ [][RuleNext]_vars

\* the last rule call asked the given rule
Asked(rule) ==
    /\ pc = "asked" /\ calls # <<>>
    /\ calls[1].rule = rule

\* C17: every call of RoleTimeWindowRule returns a value, and it is true
\* iff the role has no cooldown, or the person's last assigned date for the
\* role is unset (no date recorded for it), or the event is more than the
\* cooldown after it (worship leader and Sunday-school teacher 4 weeks,
\* emcee 2 weeks): exactly the cooldown is ineligible, one week more is
\* eligible.
C17_RoleTimeWindowStrict ==
    Asked("RoleTimeWindowRule") =>
        LET role == calls[1].role
            last == LastOf(last_assigned_dates[check.person], role)
            since == check.event_date - last
            weeks == CASE role = "WORSHIPLEADER" -> 4
                       [] role = "SUNDAYSCHOOLTEACHER" -> 4
                       [] role = "EMCEE" -> 2
                       [] OTHER -> 0
        IN  /\ ~calls[1].raises
            /\ role \notin CooldownRoles => calls[1].result
            /\ role \in CooldownRoles =>
                  /\ calls[1].result <=> (last = NoDate \/ since > weeks * DaysPerWeek)
                  /\ (last # NoDate /\ since = weeks * DaysPerWeek) => ~calls[1].result
                  /\ (last # NoDate /\ since = (weeks + 1) * DaysPerWeek) => calls[1].result

\* C18: ConsecutiveAssignmentLimitRule is true iff fewer than 3 dates of the
\* set union of assigned_dates and preaching_dates lie in the closed window
\* from 3 weeks before the event to the event.
C18_SetUnionCount ==
    Asked("ConsecutiveAssignmentLimitRule") =>
        LET person == team[check.person]
            union == Range(assigned_dates[check.person]) \cup Range(person.preaching_dates)
            in_window == { d \in union :
                             /\ check.event_date - 3 * DaysPerWeek <= d
                             /\ d <= check.event_date }
        IN  calls[1].result <=> Cardinality(in_window) < 3

\* C19: ConsecutiveRoleAssignmentLimitRule(assignment_limit) is true iff
\* fewer than assignment_limit entries of role_assigned_dates[role] lie in
\* the half-open window after (event date - assignment_limit weeks) up to
\* the event date; a date exactly assignment_limit weeks before the event
\* and a date after the event are not counted.
C19_HalfOpenWindowCount ==
    Asked("ConsecutiveRoleAssignmentLimitRule") =>
        LET of_role == role_assigned_dates[check.person][calls[1].role]
            limit == calls[1].assignment_limit
            in_window == { i \in 1..Len(of_role) :
                             /\ check.event_date - limit * DaysPerWeek < of_role[i]
                             /\ of_role[i] <= check.event_date }
        IN  calls[1].result <=> Cardinality(in_window) < limit

\* the dates 1, 2, ..., n weeks before the event
WeeksBefore(n) == { check.event_date - k * DaysPerWeek : k \in 1..n }

\* C20: under ConsecutiveRoleAssignmentLimitRule(assignment_limit), a person
\* assigned the role on each of the assignment_limit weekly dates before the
\* event is ineligible for it, and a person whose assignments of the role
\* are assignment_limit - 1 of those dates and nothing else is eligible.
C20_ConsecutiveRoleLimit ==
    Asked("ConsecutiveRoleAssignmentLimitRule") =>
        LET of_role == role_assigned_dates[check.person][calls[1].role]
            limit == calls[1].assignment_limit
        IN  /\ WeeksBefore(limit) \subseteq Range(of_role) => ~calls[1].result
            /\ ( /\ Range(of_role) \subseteq WeeksBefore(limit)
                 /\ Len(of_role) = limit - 1
                 /\ Cardinality(Range(of_role)) = limit - 1 ) => calls[1].result

\* C20 reached: the rule built with limit 3 said no to a person assigned the
\* role 1, 2 and 3 weeks before the event
C20_Witness ==
    /\ Asked("ConsecutiveRoleAssignmentLimitRule")
    /\ calls[1].assignment_limit = 3
    /\ Range(role_assigned_dates[check.person][calls[1].role]) = WeeksBefore(3)
    /\ ~calls[1].result

-----------------------------------------------------------------------------
(* Single questions about one person: the preacher-related rules of        *)
(* eligibility/rules.py, Event.is_assignable_if_needed, and the            *)
(* configuration checks of the fatigue limits                              *)

\* the Sundays of one fatigue window: the event dates and preaching dates
\* of the questions
AskDates == { D(k) : k \in 0..CONSECUTIVE_ASSIGNMENTS_LIMIT }

AskNames == { "Lulu", "lulu", "Ann" }

AskRoles == { "WORSHIPLEADER", "EMCEE", "ACOUSTIC" }

\* the persons asked about: every mix of name, capability, leave, blockout
\* and preaching dates (in any order, repeats included)
AskPersons ==
    { [name |-> name, roles |-> roles, blockout_dates |-> blockout,
       preaching_dates |-> preaching, teaching_dates |-> {}, on_leave |-> on_leave] :
         name \in AskNames,
         roles \in { {"WORSHIPLEADER", "EMCEE"}, {"ACOUSTIC"} },
         blockout \in { {}, {D(1)} },
         preaching \in SeqsUpTo(AskDates, MaxPreaching),
         on_leave \in BOOLEAN }

AskPreachers == { Unassigned, "Edmund", "Kris" }

\* the limits a fatigue check is configured with
AskLimits == { -1, 0, CONSECUTIVE_ASSIGNMENTS_LIMIT }

\* has_exceeded_consecutive_assignments: the two ValueError guards
has_exceeded_consecutive_assignments_raises(reference_date, limit) ==
    reference_date = NoDate \/ limit <= 0

\* has_exceeded_consecutive_assignments: the value returned
has_exceeded_consecutive_assignments(dates, preaching_dates, reference_date, limit) ==
    LET window_start == reference_date - limit * DaysPerWeek
        all_dates == dates \o preaching_dates
        dates_within_window ==
            { i \in 1..Len(all_dates) :
                window_start <= all_dates[i] /\ all_dates[i] <= reference_date }
    IN  Cardinality(dates_within_window) >= limit

\* ConsecutiveRoleAssignmentLimitRule.__init__ stores assignment_limit and
\* timedelta(weeks=assignment_limit); neither statement raises
ConsecutiveRoleAssignmentLimitRule_init_raises(assignment_limit) == FALSE

\* one person, one role and one event date (the preacher of the date is
\* given with the question); the person is freshly constructed, or took the
\* role the Sunday before
AskInit ==
    /\ undo_stack = <<>>
    /\ redo_stack = <<>>
    /\ sheet = NoSheet
    /\ handler = NoHandler
    /\ rules = <<>>
    /\ \E person \in AskPersons : team = << person >>
    /\ \E role \in AskRoles, date \in AskDates :
          check = [person |-> 1, role |-> role, event_date |-> date,
                   preacher |-> Unassigned]
    /\ \E n \in 0..1 :
          LET took == n = 1 /\ check.role \in team[1].roles
              date == check.event_date - DaysPerWeek
          IN  /\ assigned_dates =
                    << IF took THEN assign_event_assigned_dates(Person_init_assigned_dates, date)
                       ELSE Person_init_assigned_dates >>
              /\ last_assigned_dates =
                    << IF took
                       THEN assign_event_last_assigned_dates(
                                Person_init_last_assigned_dates(team[1]), check.role, date)
                       ELSE Person_init_last_assigned_dates(team[1]) >>
              /\ role_assigned_dates =
                    << IF took
                       THEN assign_event_role_assigned_dates(
                                Person_init_role_assigned_dates, check.role, date)
                       ELSE Person_init_role_assigned_dates >>
    /\ team_none = FALSE
    /\ event_dates = <<>>
    /\ events = <<>>
    /\ preachers = <<>>
    /\ rotation = <<>>
    /\ worship_leader_index = 0
    /\ pc = "ask"
    /\ di = 0
    /\ ri = 0
    /\ team_copy = <<>>
    /\ event = Event_init(NoDate)
    /\ ret = NoReturn
    /\ calls = <<>>

\* what a question leaves alone: everything but its answer
AskFrame ==
    /\ pc' = "asked"
    /\ UNCHANGED <<undo_stack, redo_stack, sheet, handler, rules, team, team_none,
                   event_dates, preachers, events, rotation, worship_leader_index,
                   assigned_dates, last_assigned_dates, role_assigned_dates,
                   di, ri, team_copy, event>>

AskAnswer(op, limit, reference_date, raises, result) ==
    /\ calls' = << [op |-> op, limit |-> limit, reference_date |-> reference_date,
                    raises |-> raises, result |-> result] >>
    /\ ret' = IF raises THEN [kind |-> "error"] ELSE [kind |-> "bool", value |-> result]

\* WorshipLeaderPreachingConflictRule().is_eligible(person, role, event_date)
AskWorshipLeaderPreachingConflict ==
    /\ pc = "ask"
    /\ UNCHANGED check
    /\ AskAnswer("WorshipLeaderPreachingConflictRule", 0, check.event_date, FALSE,
                 WorshipLeaderPreachingConflictRule(check.person, check.role,
                                                    check.event_date, check.preacher))
    /\ AskFrame

\* LuluEmceeRule().is_eligible(person, role, event_date, preacher)
AskLuluEmcee ==
    /\ pc = "ask"
    /\ \E preacher \in AskPreachers :
          /\ check' = [check EXCEPT !.preacher = preacher]
          /\ AskAnswer("LuluEmceeRule", 0, check.event_date, FALSE,
                       LuluEmceeRule(check.person, check.role, check.event_date, preacher))
    /\ AskFrame

\* Event(date, team).is_assignable_if_needed(role, person)
AskIsAssignableIfNeeded ==
    /\ pc = "ask"
    /\ UNCHANGED check
    /\ AskAnswer("is_assignable_if_needed", 0, check.event_date, FALSE,
                 is_assignable_if_needed(Event_init(check.event_date), check.role,
                                         check.person))
    /\ AskFrame

\* has_exceeded_consecutive_assignments(assigned_dates, preaching_dates,
\* reference_date, limit) with any limit and with or without a date
AskHasExceeded ==
    /\ pc = "ask"
    /\ UNCHANGED check
    /\ \E limit \in AskLimits, reference_date \in { NoDate, check.event_date } :
          LET raises == has_exceeded_consecutive_assignments_raises(reference_date, limit)
          IN  AskAnswer("has_exceeded_consecutive_assignments", limit, reference_date,
                        raises,
                        IF raises THEN FALSE
                        ELSE has_exceeded_consecutive_assignments(
                                 assigned_dates[check.person],
                                 team[check.person].preaching_dates,
                                 reference_date, limit))
    /\ AskFrame

\* ConsecutiveRoleAssignmentLimitRule(assignment_limit) and then its
\* is_eligible(person, role, event_date)
AskConstructRoleLimit ==
    /\ pc = "ask"
    /\ UNCHANGED check
    /\ \E limit \in AskLimits :
          LET raises == ConsecutiveRoleAssignmentLimitRule_init_raises(limit)
          IN  AskAnswer("ConsecutiveRoleAssignmentLimitRule", limit, check.event_date,
                        raises,
                        IF raises THEN FALSE
                        ELSE ConsecutiveRoleAssignmentLimitRule_is_eligible(
                                 limit, check.person, check.role, check.event_date))
    /\ AskFrame

\* the overall fatigue check asked three ways of the same person and date:
\* person.assigned_too_many_times_recently(date), ConsecutiveAssignmentLimitRule
\* and has_exceeded_consecutive_assignments with CONSECUTIVE_ASSIGNMENTS_LIMIT
\* (as PersonStatusChecker.get_status calls it)
AskFatigueChecks ==
    /\ pc = "ask"
    /\ UNCHANGED check
    /\ calls' = << [op |-> "fatigue",
                    person_method |->
                        assigned_too_many_times_recently(
                            team[check.person], assigned_dates[check.person],
                            check.event_date),
                    rule |->
                        ConsecutiveAssignmentLimitRule(check.person, check.role,
                                                       check.event_date, check.preacher),
                    checker |->
                        has_exceeded_consecutive_assignments(
                            assigned_dates[check.person],
                            team[check.person].preaching_dates,
                            check.event_date, CONSECUTIVE_ASSIGNMENTS_LIMIT)] >>
    /\ ret' = [kind |-> "bool",
               value |-> assigned_too_many_times_recently(
                             team[check.person], assigned_dates[check.person],
                             check.event_date)]
    /\ AskFrame

AskNext ==
    \/ AskWorshipLeaderPreachingConflict
    \/ AskLuluEmcee
    \/ AskIsAssignableIfNeeded
    \/ AskHasExceeded
    \/ AskConstructRoleLimit
    \/ AskFatigueChecks

SpecAsk == AskInit /\ [][AskNext]_vars

\* the last question was the given one
Answered(op) == pc = "asked" /\ calls # <<>> /\ calls[1].op = op

\* C21: for the worship-leader role the rule is true iff the person has no
\* preaching date on or after the event date, or the earliest such date is
\* more than 1 week after the event date; preaching on the event date or
\* exactly 1 week later makes it false, earlier preaching dates do not
\* count, and for every other role the rule is true.
C21_PreachingConflict ==
    Answered("WorshipLeaderPreachingConflictRule") =>
        LET preaching == Range(team[check.person].preaching_dates)
            upcoming == { d \in preaching : d >= check.event_date }
        IN  /\ check.role # "WORSHIPLEADER" => calls[1].result
            /\ check.role = "WORSHIPLEADER" =>
                  /\ calls[1].result <=>
                        \A d \in upcoming : d - check.event_date > 1 * DaysPerWeek
                  /\ check.event_date \in preaching => ~calls[1].result
                  /\ check.event_date + DaysPerWeek \in preaching => ~calls[1].result
                  /\ upcoming = {} => calls[1].result

\* C21 reached: a worship leader who preached before the event and preaches
\* again later, the earliest of the later dates exactly 1 week after it
C21_Witness ==
    /\ Answered("WorshipLeaderPreachingConflictRule")
    /\ check.role = "WORSHIPLEADER"
    /\ \E d \in Range(team[check.person].preaching_dates) : d < check.event_date
    /\ check.event_date + DaysPerWeek \in Range(team[check.person].preaching_dates)
    /\ ~calls[1].result

\* C22: the person named exactly "Lulu" passes the rule for EMCEE iff the
\* event's preacher is named exactly "Edmund" (none means no); every other
\* name and every other role passes.
C22_LuluEmcee ==
    Answered("LuluEmceeRule") =>
        IF team[check.person].name = "Lulu" /\ check.role = "EMCEE"
        THEN calls[1].result <=> check.preacher = "Edmund"
        ELSE calls[1].result

\* C22 reached: Lulu was asked about for EMCEE on a date without a preacher
\* and did not pass
C22_Witness ==
    /\ Answered("LuluEmceeRule")
    /\ team[check.person].name = "Lulu"
    /\ check.role = "EMCEE"
    /\ check.preacher = Unassigned
    /\ ~calls[1].result

\* C23: a fatigue check configured with a limit of 0 or less, or asked
\* without a reference date, ends in an error and gives no answer.
C23_NonPositiveLimitRejected ==
    ( /\ pc = "asked" /\ calls # <<>>
      /\ calls[1].op \in { "has_exceeded_consecutive_assignments",
                           "ConsecutiveRoleAssignmentLimitRule" }
      /\ (calls[1].limit <= 0 \/ calls[1].reference_date = NoDate) )
        => (calls[1].raises /\ ret.kind = "error")

\* C24: is_assignable_if_needed is true iff the person is not on leave, is
\* capable of the role, and the event date is neither a blockout date nor a
\* preaching date of theirs.
C24_AssignableIfNeeded ==
    Answered("is_assignable_if_needed") =>
        LET person == team[check.person]
        IN  calls[1].result <=>
                /\ person.on_leave = FALSE
                /\ check.role \in person.roles
                /\ check.event_date \notin person.blockout_dates
                /\ \A i \in 1..Len(person.preaching_dates) :
                      person.preaching_dates[i] # check.event_date

\* C24 reached: a person who took the role the Sunday before, and whom the
\* role's time window therefore rejects, is assignable
C24_Witness ==
    /\ Answered("is_assignable_if_needed")
    /\ calls[1].result
    /\ assigned_dates[check.person] # <<>>
    /\ ~RoleTimeWindowRule(check.person, check.role, check.event_date, check.preacher)

-----------------------------------------------------------------------------
(* Properties of the steps of Schedule.build                               *)

\* a step of build that processes one role of the event under construction
RoleStep == pc = "roles" /\ ri <= Len(RoleOrder) /\ ri' = ri + 1

\* the persons of the working pool that pass the eligibility check for the
\* role being processed, before the step
PoolEligible ==
    EligiblePersons(team_copy, RoleOrder[ri], event.date,
                    get_assigned_preacher_name(event.date))

\* C25: when a role is processed it is left unassigned iff no person of the
\* date's working pool passes the eligibility check for it; otherwise it
\* goes to one of those who pass.
C25_UnassignedOnlyIfNoneEligible ==
    [][RoleStep =>
          /\ (event'.roles[RoleOrder[ri]] = Unassigned) <=> (PoolEligible = <<>>)
          /\ PoolEligible # <<>> =>
                /\ event'.holder[RoleOrder[ri]] \in Range(PoolEligible)
                /\ event'.roles[RoleOrder[ri]] = team[event'.holder[RoleOrder[ri]]].name
      ]_vars

\* C25 reached: emcee was processed and left unassigned with a person still
\* in the pool, after the worship leader was assigned
C25_Witness ==
    /\ pc = "roles"
    /\ ri = 3
    /\ event.roles["WORSHIPLEADER"] # Unassigned
    /\ event.roles["EMCEE"] = Unassigned
    /\ team_copy # <<>>

\* C26: for the worship leader the person the rotation returns for the
\* eligible set is assigned and the cursor moves as the rotation says;
\* when it returns nobody some eligible person is assigned and the cursor
\* stays; the assignee is always eligible; for every other role the cursor
\* stays.
C26_RotationFirstThenAnyEligible ==
    [][RoleStep =>
          LET next == get_next_worship_leader(PoolEligible, rotation, worship_leader_index)
              assignee == event'.holder[RoleOrder[ri]]
          IN  /\ RoleOrder[ri] = "WORSHIPLEADER" /\ next.person # NoPerson =>
                    /\ assignee = next.person
                    /\ worship_leader_index' = next.index
              /\ RoleOrder[ri] = "WORSHIPLEADER" /\ next.person = NoPerson =>
                    /\ PoolEligible # <<>> => assignee \in Range(PoolEligible)
                    /\ worship_leader_index' = worship_leader_index
              /\ assignee # NoPerson => assignee \in Range(PoolEligible)
              /\ RoleOrder[ri] # "WORSHIPLEADER" =>
                    worship_leader_index' = worship_leader_index
      ]_vars

\* C26 reached: the rotation gave the worship leader and moved the cursor,
\* and a later role of the same event went to a person the rotation names
\* while the cursor stayed
C26_Witness ==
    /\ pc = "roles"
    /\ ri >= 3
    /\ rotation # <<>>
    /\ worship_leader_index # 0
    /\ event.roles["WORSHIPLEADER"] \in Range(rotation)
    /\ event.roles["EMCEE"] \in Range(rotation)
    /\ events = <<>>

-----------------------------------------------------------------------------
(* The circular scan of WorshipLeaderSelector.get_next                     *)

\* the rotation position (1-based) met after `steps` steps from the cursor
ScanPosition(cursor, steps) == ((cursor + steps) % Len(rotation)) + 1

\* the numbers of steps at which the scan from the cursor meets the name of
\* an eligible person
ScanHits(cursor, eligible) ==
    { j \in 0..(Len(rotation) - 1) :
        rotation[ScanPosition(cursor, j)] \in NamesOf(eligible) }

\* one logged call did what the scan prescribes
ScanCallOk(c) ==
    IF rotation = <<>> \/ c.eligible = {} \/ ScanHits(c.before, c.eligible) = {}
    THEN c.person = NoPerson /\ c.after = c.before
    ELSE LET first == CHOOSE j \in ScanHits(c.before, c.eligible) :
                          \A i \in ScanHits(c.before, c.eligible) : j <= i
         IN  /\ c.person \in c.eligible
             /\ team[c.person].name = rotation[ScanPosition(c.before, first)]
             /\ c.after = ScanPosition(c.before, first) % Len(rotation)

\* C27: get_next returns the eligible person named by the first rotation
\* entry, scanning circularly from the cursor, that an eligible person
\* carries, and leaves the cursor one past that entry (modulo the length);
\* without such an entry it returns nobody and leaves the cursor; the
\* rotation list never changes.
C27_CircularScan ==
    [][/\ rotation' = rotation
       /\ pc = "selector" /\ Len(calls') > Len(calls) =>
             /\ calls'[Len(calls')].before = worship_leader_index
             /\ calls'[Len(calls')].after = worship_leader_index'
             /\ ScanCallOk(calls'[Len(calls')])
      ]_vars

\* C27 reached: a call skipped at least one rotation name that nobody
\* eligible carries, wrapped past the end of the rotation and returned a
\* person
C27_Witness ==
    /\ pc = "selector"
    /\ \E k \in 1..Len(calls) :
          /\ calls[k].person # NoPerson
          /\ rotation[calls[k].before + 1] \notin NamesOf(calls[k].eligible)
          /\ calls[k].after <= calls[k].before
          /\ calls[k].after # 0

\* Role.get_schedule_order(): the order of the roles in the displayed schedule
get_schedule_order ==
    << "EMCEE", "WORSHIPLEADER", "ACOUSTIC", "KEYS", "DRUMS", "BASS",
       "AUDIO", "LIVE", "LYRICS", "BACKUP", "ELECTRIC", "SUNDAYSCHOOLTEACHER" >>

\* the roles whose turn has not come yet when the loop is at position i of
\* an order
Pending(order, i) == { order[j] : j \in i..Len(order) }

\* C28: within an event the roles are resolved one at a time in the order
\* worship leader, emcee, acoustic, keys, drums, bass, audio, live, lyrics,
\* Sunday-school teacher, backup, electric: the slots of the roles still to
\* come are unassigned, a step writes no slot but the one whose turn it is,
\* and the finished event is stored with the slots as they were resolved; so
\* the worship-leader slot is final when acoustic is evaluated and the bass
\* slot when live is evaluated.
C28_DeclarationOrder ==
    [][LET order == << "WORSHIPLEADER", "EMCEE", "ACOUSTIC", "KEYS", "DRUMS",
                       "BASS", "AUDIO", "LIVE", "LYRICS", "SUNDAYSCHOOLTEACHER",
                       "BACKUP", "ELECTRIC" >>
       IN  /\ pc' = "roles" =>
                \A r \in Pending(order, ri') : event'.roles[r] = Unassigned
           /\ pc = "roles" =>
                /\ \A r \in Role \ Pending(order, ri) : event'.roles[r] = event.roles[r]
                /\ \A r \in Pending(order, ri + 1) : event'.roles[r] = event.roles[r]
                /\ pc' = "build" => events'[Len(events')].roles = event.roles
      ]_vars

\* C28 reached: acoustic has just been resolved and filled while the
\* worship-leader slot, resolved two steps earlier, is filled and the emcee
\* slot, first in display order, was resolved after it and stayed empty
C28_Witness ==
    /\ pc = "roles"
    /\ RoleOrder[ri] = "KEYS"
    /\ get_schedule_order[1] = "EMCEE"
    /\ event.roles["WORSHIPLEADER"] # Unassigned
    /\ event.roles["ACOUSTIC"] # Unassigned
    /\ event.roles["EMCEE"] = Unassigned

\* list a is an initial part of list b
GrewFrom(a, b) == Len(a) <= Len(b) /\ \A i \in 1..Len(a) : b[i] = a[i]

\* the roles of the event under construction whose turn is over
Processed == Role \ Pending(RoleOrder, ri)

\* C29: a build never goes back: a filled slot of the event under
\* construction is never changed or cleared, a slot left unassigned when its
\* role was processed stays unassigned, an appended event is never modified
\* (so both still hold when build returns), and each person's assigned_dates
\* only grows.
C29_NoBacktracking ==
    [][/\ pc = "roles" /\ pc' = "roles" =>
            \A r \in Role :
               /\ event.roles[r] # Unassigned => event'.roles[r] = event.roles[r]
               /\ r \in Processed => event'.roles[r] = event.roles[r]
       /\ pc = "roles" /\ pc' = "build" => events' = Append(events, event)
       /\ GrewFrom(events, events')
       /\ \A p \in 1..Len(team) : GrewFrom(assigned_dates[p], assigned_dates'[p])
      ]_vars

\* C29 reached: build has returned two events; in the first a slot is filled
\* and another was left unassigned although a member of the team has the
\* role, and somebody was assigned on both dates
C29_Witness ==
    /\ pc = "done"
    /\ ret.kind = "pair"
    /\ Len(events) = 2
    /\ \E r \in Role : events[1].roles[r] # Unassigned
    /\ \E r \in Role :
          /\ events[1].roles[r] = Unassigned
          /\ \E p \in 1..Len(team) : r \in team[p].roles /\ ~team[p].on_leave
    /\ \E p \in 1..Len(team) : Len(assigned_dates[p]) = 2

-----------------------------------------------------------------------------
(* Rule order and the outcome of EligibilityChecker.is_eligible            *)

\* the lists that hold the same rules as rs in some order
Orderings(rs) ==
    { s \in [1..Len(rs) -> Range(rs)] : \A i, j \in 1..Len(rs) : s[i] = s[j] => i = j }

\* what EligibilityChecker(rs).is_eligible gives for the arguments of the
\* call: the loop stops at the first rule that raises or returns false
is_eligible_outcome(rs) ==
    LET stops(i) ==
            \/ rule_raises(rs[i], check.person, check.role, check.event_date,
                           check.preacher)
            \/ ~rule_is_eligible(rs[i], check.person, check.role, check.event_date,
                                 check.preacher)
        stopping == { i \in 1..Len(rs) : stops(i) }
    IN  IF stopping = {} THEN [kind |-> "bool", value |-> TRUE]
        ELSE LET first == CHOOSE i \in stopping : \A j \in stopping : i <= j
             IN  IF rule_raises(rs[first], check.person, check.role,
                                check.event_date, check.preacher)
                 THEN [kind |-> "error"]
                 ELSE [kind |-> "bool", value |-> FALSE]

\* C30: when is_eligible has finished, its outcome is a boolean, not an
\* error, and every ordering of the same rules gives that same outcome.
C30_RuleOrderIrrelevant ==
    pc = "done" =>
        /\ ret.kind = "bool"
        /\ \A rs \in Orderings(rules) : is_eligible_outcome(rs) = ret

-----------------------------------------------------------------------------
(* Hard availability of the persons Schedule.build assigns                 *)

\* the person object put into the slot of the role being processed by this
\* step, NoPerson when the step assigns nobody
Assignee == IF pc = "roles" /\ ri <= Len(RoleOrder) /\ ri' = ri + 1
            THEN event'.holder[RoleOrder[ri]] ELSE NoPerson

\* C31: every assignment of a build goes to a person who has the role, is
\* not on leave and neither blocks out nor preaches on the event date; a
\* worship leader moreover does not teach on that date and preaches on no
\* date from the event date to one week after it.
C31_HardAvailability ==
    [][Assignee # NoPerson =>
          LET person == team[Assignee]
              role == RoleOrder[ri]
          IN  /\ role \in person.roles
              /\ ~person.on_leave
              /\ event.date \notin person.blockout_dates
              /\ event.date \notin Range(person.preaching_dates)
              /\ role = "WORSHIPLEADER" =>
                    /\ event.date \notin person.teaching_dates
                    /\ \A d \in Range(person.preaching_dates) :
                          ~(event.date <= d /\ d <= event.date + PREACHING_TIME_WINDOW)
      ]_vars

\* C31 reached: a worship leader has been assigned while another member of
\* the team who has the role was kept out by a preaching date in the week
\* after the event or by teaching on its date
C31_Witness ==
    /\ pc = "roles"
    /\ ri = 2
    /\ event.holder["WORSHIPLEADER"] # NoPerson
    /\ \E q \in 1..Len(team) :
          /\ q # event.holder["WORSHIPLEADER"]
          /\ "WORSHIPLEADER" \in team[q].roles
          /\ \/ event.date \in team[q].teaching_dates
             \/ \E d \in Range(team[q].preaching_dates) :
                   event.date < d /\ d <= event.date + PREACHING_TIME_WINDOW

-----------------------------------------------------------------------------
(* Agreement of Person histories and Event slots after a build             *)

DistinctDates == \A i, j \in 1..Len(event_dates) : event_dates[i] = event_dates[j] => i = j

\* the person's name fills a role slot of the event
FillsSlot(p, ev) == \E r \in Role : ev.roles[r] = team[p].name

\* positions of the events in which the person's name fills the slot of role r
HeldIn(p, r) == { k \in 1..Len(events) : events[k].roles[r] = team[p].name }

\* person.last_assigned_dates.get(role): None when never set
LastAssigned(p, r) ==
    IF r \in DOMAIN last_assigned_dates[p] THEN last_assigned_dates[p][r] ELSE NoDate

\* the histories of the persons agree with the slots of the events: the
\* date of an event occurs in a person's assigned_dates exactly once if the
\* person's name fills a slot of the event and not at all otherwise, and the
\* person's last assigned date for a role is the date of the last processed
\* event in which the person's name holds that role, unset when there is none
HistoryAgreesWithSlots ==
    \A p \in 1..Len(team) :
       /\ \A k \in 1..Len(events) :
             Occurrences(assigned_dates[p], events[k].date)
                = IF FillsSlot(p, events[k]) THEN 1 ELSE 0
       /\ \A r \in Role :
             LastAssigned(p, r) =
                IF HeldIn(p, r) = {} THEN NoDate
                ELSE events[CHOOSE k \in HeldIn(p, r) : \A j \in HeldIn(p, r) : j <= k].date

\* C32 as stated: after a build over distinct event dates, the date of an
\* event occurs in a person's assigned_dates exactly once if the person's
\* name fills a slot of the event and not at all otherwise, and the person's
\* last assigned date for a role is the date of the last processed event in
\* which the person holds that role, unset when there is none. Two members
\* of the team may bear one name.
C32_HistoryAgreesWithSlotsAnyNames ==
    (pc = "done" /\ ret.kind = "pair" /\ DistinctDates) => HistoryAgreesWithSlots

\* C32 amended: after a build over distinct event dates for a team whose
\* members bear distinct names, the date of an event occurs in a person's
\* assigned_dates exactly once if the person's name fills a slot of the
\* event and not at all otherwise, and the person's last assigned date for
\* a role is the date of the last processed event in which the person holds
\* that role, unset when there is none.
C32_HistoryAgreesWithSlotsUniqueNames ==
    (pc = "done" /\ ret.kind = "pair" /\ DistinctDates /\ UniqueNames) =>
        HistoryAgreesWithSlots

\* C32 reached: a finished build of two events on distinct dates in which
\* one person holds the same role in both, and another person holds a role
\* in the first event only and so keeps the first date as the last one for it
C32_Witness ==
    /\ pc = "done" /\ ret.kind = "pair" /\ DistinctDates /\ UniqueNames
    /\ Len(events) = 2
    /\ \E p \in 1..Len(team), r \in Role :
          /\ HeldIn(p, r) = {1, 2}
          /\ LastAssigned(p, r) = events[2].date
    /\ \E q \in 1..Len(team), r \in Role :
          /\ HeldIn(q, r) = {1}
          /\ LastAssigned(q, r) = events[1].date

-----------------------------------------------------------------------------
(* Interactive edits: one person, one slot per event                       *)

\* C33: after any sequence of edits, undos and redos whose replacement
\* persons come from get_available_replacements_for_event, no name fills two
\* role slots of the same event.
C33_NoDoubleBooking ==
    pc = "popup" =>
        \A e \in 1..Len(events) : \A r1, r2 \in Role :
            (r1 # r2 /\ events[e].roles[r1] # Unassigned)
                => events[e].roles[r2] # events[e].roles[r1]

\* C34: whatever edits, undos and redos are issued, every unassign a
\* command makes finds the person in the slot and every assign finds the
\* slot empty: no command run by an edit, an undo or a redo raises a
\* structural-misuse error.
C34_NoMisuseError ==
    (pc = "popup" /\ calls # <<>>) => ~calls[1].raised

-----------------------------------------------------------------------------
(* Per-role limit on consecutive weeks: builds over runs of Sundays with   *)
(* members whose roles carry no cooldown of their own                      *)

WeeksRoster ==
    << NoConstraints("Kay", {"KEYS"}),
       NoConstraints("Dan", {"KEYS", "DRUMS"}),
       NoConstraints("Ann", {"WORSHIPLEADER", "EMCEE"}) >>

\* Schedule(team, event_dates, preachers, rotation) with the dates that
\* get_all_sundays yields and members picked from the roster above
WeeksInit ==
    /\ undo_stack = <<>>
    /\ redo_stack = <<>>
    /\ sheet = NoSheet
    /\ handler = NoHandler
    /\ rules = <<>>
    /\ check = NoCheck
    /\ team_none = FALSE
    /\ team \in { PickSeq(WeeksRoster, S) :
                    S \in { T \in SUBSET (1..Len(WeeksRoster)) :
                              T # {} /\ Cardinality(T) <= MaxTeam } }
    /\ event_dates \in SundayRuns
    /\ preachers = <<>>
    /\ rotation \in RotationInputs
    /\ worship_leader_index = 0
    /\ events = <<>>
    /\ assigned_dates = [p \in 1..Len(team) |-> Person_init_assigned_dates]
    /\ last_assigned_dates = [p \in 1..Len(team) |-> Person_init_last_assigned_dates(team[p])]
    /\ role_assigned_dates = [p \in 1..Len(team) |-> Person_init_role_assigned_dates]
    /\ pc = "build"
    /\ di = 1
    /\ ri = 0
    /\ team_copy = <<>>
    /\ event = Event_init(NoDate)
    /\ ret = NoReturn
    /\ calls = <<>>

SpecWeeks == WeeksInit /\ [][Next]_vars

\* the event dates are consecutive Sundays in ascending order
ConsecutiveWeeks ==
    \A i \in 1..(Len(event_dates) - 1) : event_dates[i + 1] = event_dates[i] + DaysPerWeek

\* the name fills the slot of the role in events k .. k + n - 1
HoldsRun(name, role, k, n) ==
    /\ k + n - 1 <= Len(events)
    /\ \A j \in k..(k + n - 1) : events[j].roles[role] = name

\* C35: in the events of a build over consecutive weekly dates in ascending
\* order nobody holds one role in three consecutive events.
C35_NoThreeInARow ==
    ConsecutiveWeeks =>
        \A k \in 1..Len(events) : \A role \in Role :
            events[k].roles[role] # Unassigned =>
                ~HoldsRun(events[k].roles[role], role, k, default_role_assignment_limit + 1)

\* C35 reached: a finished build over consecutive weeks in which a person
\* held a role two weeks running and, though able to take it and free of
\* every other restriction, is not given it in the third week
C35_Witness ==
    /\ pc = "done" /\ ret.kind = "pair" /\ ConsecutiveWeeks
    /\ \E k \in 1..Len(events), role \in Role \ CooldownRoles, p \in 1..Len(team) :
          /\ HoldsRun(team[p].name, role, k, default_role_assignment_limit)
          /\ k + default_role_assignment_limit <= Len(events)
          /\ events[k + default_role_assignment_limit].roles[role] # team[p].name
          /\ \A r \in Role : events[k + default_role_assignment_limit].roles[r] # team[p].name
          /\ ~team[p].on_leave
          /\ events[k + default_role_assignment_limit].date \notin team[p].blockout_dates
          /\ events[k + default_role_assignment_limit].date \notin Range(team[p].preaching_dates)

-----------------------------------------------------------------------------
(* The rotation cursor at the start of a build                             *)

\* a build has been started and has not yet looked at its first date
BuildStarting == calls # <<>> /\ pc = "build" /\ di = 1 /\ events = <<>>

\* a build over the dates of the build before it has returned, and in both
\* the worship leader of the first date came from the rotation
SameBuildAgain ==
    /\ pc = "done" /\ ret.kind = "pair"
    /\ handler.builds >= 1
    /\ event_dates = handler.dates
    /\ events # <<>>
    /\ handler.leader \in Range(rotation)
    /\ events[1].roles["WORSHIPLEADER"] \in Range(rotation)

\* C36: every build started on a handler begins with the rotation cursor at
\* its initial position 0, whatever the builds before it did, so a build
\* over the same dates as the one before it gives the first date the same
\* rotation-selected worship leader.
C36_CursorStartsAtZero ==
    /\ BuildStarting => worship_leader_index = 0
    /\ SameBuildAgain => events[1].roles["WORSHIPLEADER"] = handler.leader

-----------------------------------------------------------------------------
(* The three implementations of the overall fatigue check                  *)

\* C37: Person.assigned_too_many_times_recently, the negation of
\* ConsecutiveAssignmentLimitRule.is_eligible and
\* has_exceeded_consecutive_assignments with limit 3 give one and the same
\* answer for every person history and reference date, dates that occur in
\* both lists or more than once included.
C37_FatigueChecksAgree ==
    Answered("fatigue") =>
        /\ calls[1].person_method = ~calls[1].rule
        /\ calls[1].person_method = calls[1].checker

-----------------------------------------------------------------------------
(* The range of the rotation cursor                                        *)

\* C38: on a selector with a non-empty rotation whose index started within
\* the rotation, after any sequence of get_next calls the cursor is still a
\* position of the rotation: 0 <= index < len(rotation).
C38_CursorInRange ==
    (pc = "selector" /\ rotation # <<>>) =>
        /\ worship_leader_index \in 0..(Len(rotation) - 1)
        /\ \A k \in 1..Len(calls) : calls[k].after \in 0..(Len(rotation) - 1)

\* a call matched the name at the last position of a rotation of several
\* names and the cursor wrapped to 0; a later call moved it on again
C38_Witness ==
    /\ pc = "selector"
    /\ Len(rotation) > 1
    /\ \E k \in 1..Len(calls) :
          /\ calls[k].person # NoPerson
          /\ rotation[Len(rotation)] = team[calls[k].person].name
          /\ calls[k].after = 0
          /\ k < Len(calls)
          /\ calls[k + 1].person # NoPerson
          /\ calls[k + 1].after = 1

-----------------------------------------------------------------------------
(* UIScheduleHandler: the date range asked for and the preaching dates     *)

\* UIScheduleHandler._is_within_date_range
is_within_date_range(reference_date) ==
    handler.earliest_date <= reference_date /\ reference_date <= handler.latest_date

\* UIScheduleHandler._is_preaching_schedule_within_date_range
is_preaching_schedule_within_date_range(start_date, end_date) ==
    /\ start_date <= handler.earliest_date
    /\ handler.earliest_date <= handler.latest_date
    /\ handler.latest_date <= end_date

\* UIScheduleHandler.validate_dates: the message, Unassigned for None
validate_dates(start_date, end_date) ==
    IF start_date = NoDate \/ end_date = NoDate THEN "Missing Input!"
    ELSE IF start_date > end_date THEN "Invalid Input!"
    ELSE IF /\ ~is_within_date_range(start_date)
            /\ ~is_within_date_range(end_date)
            /\ ~is_preaching_schedule_within_date_range(start_date, end_date)
         THEN "No preaching schedule available within specified dates!"
    ELSE Unassigned

adjust_dates_within_range_start_only(start_date, end_date) ==
    [start_date |-> IF start_date < handler.earliest_date
                    THEN handler.earliest_date ELSE start_date,
     end_date |-> end_date,
     is_adjusted |-> start_date < handler.earliest_date \/ end_date > handler.latest_date]

\* UIScheduleHandler.adjust_dates_within_range: (start_date, end_date, is_adjusted)
adjust_dates_within_range(start_date, end_date) ==
    [start_date |-> IF start_date < handler.earliest_date
                    THEN handler.earliest_date ELSE start_date,
     end_date |-> IF end_date > handler.latest_date
                  THEN handler.latest_date ELSE end_date,
     is_adjusted |-> start_date < handler.earliest_date \/ end_date > handler.latest_date]

\* preacher lists a handler is constructed with: one preacher with any dates
\* of three Sundays, two preachers, no preacher
DatesPreachers ==
    { << [name |-> "Edmund", dates |-> S] >> : S \in SUBSET { D(1), D(2), D(3) } }
        \cup { << [name |-> "Edmund", dates |-> { D(2) }],
                  [name |-> "Kris", dates |-> T] >> : T \in SUBSET { D(1), D(3) } }
        \cup { <<>> }

\* what the two date entries can hold: a Sunday before, within or after the
\* preaching dates, or nothing
DateEntries == { NoDate } \cup { D(k) : k \in 0..MaxWeek }

\* UIScheduleHandler.__init__ returned: the preaching date range is known
DatesInit ==
    /\ undo_stack = <<>>
    /\ redo_stack = <<>>
    /\ sheet = NoSheet
    /\ rules = <<>>
    /\ check = [start_date |-> NoDate, end_date |-> NoDate]
    /\ team = <<>>
    /\ team_none = FALSE
    /\ preachers \in DatesPreachers
    /\ ~calculate_preaching_date_range(preachers).raised
    /\ handler = [builds |-> 0,
                  earliest_date |-> calculate_preaching_date_range(preachers).earliest_date,
                  latest_date |-> calculate_preaching_date_range(preachers).latest_date]
    /\ event_dates = <<>>
    /\ rotation = <<>>
    /\ worship_leader_index = 0
    /\ events = <<>>
    /\ assigned_dates = <<>>
    /\ last_assigned_dates = <<>>
    /\ role_assigned_dates = <<>>
    /\ pc = "entries"
    /\ di = 0
    /\ ri = 0
    /\ team_copy = <<>>
    /\ event = Event_init(NoDate)
    /\ ret = NoReturn
    /\ calls = <<>>

DatesFrame ==
    UNCHANGED <<undo_stack, redo_stack, sheet, handler, rules, team, team_none, event_dates,
                preachers, events, rotation, worship_leader_index, assigned_dates,
                last_assigned_dates, role_assigned_dates, di, ri, team_copy, event,
                calls>>

\* handle_create_button_click: the entries are read and validated
DatesValidate ==
    /\ pc = "entries"
    /\ \E start_date \in DateEntries, end_date \in DateEntries :
          /\ check' = [start_date |-> start_date, end_date |-> end_date]
          /\ ret' = [kind |-> "message", value |-> validate_dates(start_date, end_date)]
    /\ pc' = "validated"
    /\ DatesFrame

\* handle_create_button_click: a validation message is shown and the click
\* handler returns
DatesValidationError ==
    /\ pc = "validated"
    /\ ret.value # Unassigned
    /\ pc' = "entries"
    /\ UNCHANGED <<check, ret>>
    /\ DatesFrame

\* handle_create_button_click: no message, the dates are adjusted
DatesAdjust ==
    /\ pc = "validated"
    /\ ret.value = Unassigned
    /\ ret' = [kind |-> "adjusted",
               value |-> adjust_dates_within_range(check.start_date, check.end_date)]
    /\ pc' = "adjusted"
    /\ UNCHANGED check
    /\ DatesFrame

DatesNext ==
    \/ DatesValidate
    \/ DatesValidationError
    \/ DatesAdjust

SpecDates == DatesInit /\ [][DatesNext]_vars

\* C39: whenever validate_dates(start, end) reports no error, the dates
\* adjust_dates_within_range(start, end) returns satisfy earliest preaching date
\* <= start' <= end' <= latest preaching date, and the adjusted flag is true
\* exactly when start' differs from start or end' differs from end.
C39_AdjustedWithinRange ==
    pc = "adjusted" =>
        /\ handler.earliest_date <= ret.value.start_date
        /\ ret.value.start_date <= ret.value.end_date
        /\ ret.value.end_date <= handler.latest_date
        /\ ret.value.is_adjusted <=>
              (\/ ret.value.start_date # check.start_date
               \/ ret.value.end_date # check.end_date)

\* entries that pass validation only because the whole preaching range lies
\* between them: both dates are moved and the flag is set
C39_Witness ==
    /\ pc = "adjusted"
    /\ handler.earliest_date < handler.latest_date
    /\ check.start_date < handler.earliest_date
    /\ check.end_date > handler.latest_date
    /\ ret.value.is_adjusted
    /\ ret.value.start_date = handler.earliest_date
    /\ ret.value.end_date = handler.latest_date

-----------------------------------------------------------------------------
(* Termination of Schedule.build                                           *)

\* the events of a returned build: one per date of the list, in its order
EachDateOnce ==
    /\ Len(events) = Len(event_dates)
    /\ \A i \in 1..Len(events) : events[i].date = event_dates[i]

\* the loop over Role has run to its end for the last date, if there was one
EachRoleOnce == ri = (IF event_dates = <<>> THEN 0 ELSE Len(RoleOrder) + 1)

\* C40: Schedule.build() terminates for every finite team, date list and
\* rotation: it reaches its return (or raises), and when it returns the
\* events it has processed each date once, having looked at each role once
\* per date.
C40_BuildTerminates ==
    <>(/\ pc = "done"
       /\ ret.kind = "pair" => (EachDateOnce /\ EachRoleOnce))

\* a build over several dates has returned; the rotation gave the first
\* worship leader and a role slot stayed empty for want of eligible persons
C40_Witness ==
    /\ pc = "done" /\ ret.kind = "pair"
    /\ Len(event_dates) >= 2
    /\ EachDateOnce
    /\ rotation # <<>>
    /\ events[1].roles["WORSHIPLEADER"] \in Range(rotation)
    /\ \E i \in 1..Len(events), r \in Role : events[i].roles[r] = Unassigned

====
